---- MODULE Spec2Model ----
(***************************************************************************)
(* Runtime orchestration layer of the FHEVM SDK:                           *)
(*   - instance lifecycle manager   (core/instance.ts,  src/unnamed/part_010) *)
(*   - worker bridge, two transports (workers/FheWorker*.ts)               *)
(*   - decrypt orchestrator and decryption-signature cache                 *)
(*                                   (core/decrypt.ts,  src/unnamed/part_011) *)
(* Each subsystem has its own specification over the module's variables;   *)
(* the variables of the other subsystems stay at their initial value.      *)
(***************************************************************************)
EXTENDS Integers, Sequences, FiniteSets, TLC

(***************************************************************************)
(* Bounds of the model.                                                    *)
(***************************************************************************)
\* createInstance / ensureInstance calls issued on the one client
MaxCalls == 3
\* encrypt / decrypt calls issued on a worker bridge
MaxOps == 2
\* init promises a worker bridge creates (one per init() that finds none)
MaxInits == 1
\* decrypt / batchDecrypt calls issued on the one client
MaxDecrypts == 2
\* how far the clock runs, in days
MaxTicks == 2
\* the validity window a new decryption signature is given, in days
DurationDays == 1
\* encrypt / decrypt operations issued on the one client with middlewares
MaxExecs == 2
\* requests made on the WebSocket provider
MaxRpcCalls == 2
\* the largest maxRetries the retry middleware is made with
MaxRetries == 1
\* calls made through the rate limiter
MaxRateCalls == 3
\* the last reading of Date.now() while the rate limiter is in use
MaxClock == 4

VARIABLES
    \* ---- instance lifecycle manager ----
    config,     \* what the client was constructed from
    network,    \* client.config.network is configured
    instance,   \* client._instance: NoInstance (undefined) or an instance identity
    call,       \* per call of createInstance/ensureInstance: where it stands
    started,    \* number of invocations of createFhevmInstance so far
    cleared,    \* clearInstance has been called (history)
    \* ---- worker bridge ----
    active,     \* the transports under test: one bridge, or both side by side
    bridge,     \* per transport: the fields of the FheWorker / FheWorkerNode object,
                \* the promises it handed out and what its worker still has to answer
    event,      \* the last call or worker event, given to both transports alike
    \* ---- decrypt orchestrator and signature cache ----
    now,        \* the clock, in days
    storage,    \* client.storage: the persisted decryption signatures, by cache key
    signLog,    \* the signTypedData invocations so far, in order
    dcall,      \* per decrypt/batchDecrypt call: where it stands
    \* ---- middleware pipeline ----
    chain,      \* MiddlewareChain.middlewares: the registered middlewares, in order
    cfg,        \* the options the retry middleware was made with
    exec,       \* per encrypt/decrypt operation: where its execution stands
    pend,       \* dedupeMiddleware's pendingRequests, as pairs <<key, owner>>
    bcall,      \* the batchEncrypt call: its items and the promise of Promise.all
    \* ---- rate limiter ----
    clock,      \* Date.now(), in ticks
    window,     \* rateLimitMiddleware's requests: the times recorded, oldest first
    rcall,      \* per call through the rate limiter: where it stands
    \* ---- caches and RPC provider ----
    cache,      \* a MultiLevelCache: its levels, and what the last get returned
    rpc         \* a WebSocketRpcProvider: its socket, its table and its requests

instVars == <<config, network, instance, call, started, cleared>>

workerVars == <<active, bridge, event>>

decVars == <<now, storage, signLog, dcall>>

mwVars == <<chain, cfg, exec, pend, bcall>>

rateVars == <<clock, window, rcall>>

auxVars == <<cache, rpc>>

vars == <<instVars, workerVars, decVars, mwVars, rateVars, auxVars>>

(***************************************************************************)
(* Instance lifecycle manager                                              *)
(***************************************************************************)
Calls == 1..MaxCalls

\* client._instance === undefined
NoInstance == 0

\* The call's abort signal: not fired yet, or fired.  A call given no signal
\* behaves as one whose signal never fires (part_010:61, 70, 85).
Signals == {"live", "aborted"}

\* Calls are issued in the order of their numbers.
NextCall(c) == call[c].pc = "idle" /\ \A d \in Calls : d < c => call[d].pc # "idle"

IdleCall ==
    [pc |-> "idle", force |-> FALSE, signal |-> "live",
     inv |-> 0, result |-> NoInstance, error |-> "none", cause |-> "none",
     overlap |-> {}]

\* calls whose createFhevmInstance invocation has not settled yet
Creating == {c \in Calls : call[c].pc = "creating"}

\* part_010:46   if (!force && client.instance) return client.instance
CacheHitNever(force) == FALSE

CacheHit(force) == ~force /\ instance # NoInstance

\* part_010:134  client.instance ?? await createInstance(client, options)
EnsureHitNever == FALSE

EnsureHit == instance # NoInstance

\* part_010:39-95, up to the await of createFhevmInstance.  `entered` is the
\* call table with the call's options recorded.  Every call that gets past the
\* three early returns invokes createFhevmInstance itself (part_010:67); the
\* invocation is identified by its number, and so is the object it returns.
createInstance(entered, c, force, signal) ==
    IF CacheHit(force)
    THEN /\ call' = [entered EXCEPT ![c].pc = "resolved", ![c].result = instance]
         /\ UNCHANGED <<instance, started>>
    ELSE IF ~network
    THEN /\ call' = [entered EXCEPT ![c].pc = "rejected", ![c].error = "InstanceError"]
         /\ UNCHANGED <<instance, started>>
    ELSE IF signal = "aborted"
    THEN /\ call' = [entered EXCEPT ![c].pc = "rejected", ![c].error = "AbortError"]
         /\ UNCHANGED <<instance, started>>
    ELSE /\ call' = [entered EXCEPT ![c].pc = "creating", ![c].inv = started + 1]
         /\ started' = started + 1
         /\ UNCHANGED instance

Enter(c, force, signal) ==
    [call EXCEPT ![c].force = force, ![c].signal = signal,
                 ![c].overlap = Creating]

\* A caller issues createInstance(client, {force, signal}).
CallCreate(c, force, signal) ==
    /\ NextCall(c)
    /\ createInstance(Enter(c, force, signal), c, force, signal)
    /\ UNCHANGED <<config, network, cleared, workerVars, decVars, mwVars, rateVars, auxVars>>

\* A caller issues ensureInstance(client, {force, signal})  (part_010:130-135).
ensureInstance(c, force, signal) ==
    /\ NextCall(c)
    /\ IF EnsureHit
       THEN /\ call' = [Enter(c, force, signal) EXCEPT
                            ![c].pc = "resolved", ![c].result = instance]
            /\ UNCHANGED <<instance, started>>
       ELSE createInstance(Enter(c, force, signal), c, force, signal)
    /\ UNCHANGED <<config, network, cleared, workerVars, decVars, mwVars, rateVars, auxVars>>

\* The signal given to a call fires (AbortController.abort()).
Abort(c) ==
    /\ call[c].pc = "creating"
    /\ call[c].signal = "live"
    /\ call' = [call EXCEPT ![c].signal = "aborted"]
    /\ UNCHANGED <<config, network, instance, started, cleared, workerVars, decVars, mwVars, rateVars, auxVars>>

\* part_010:77-82  createFhevmInstance resolved: cache the instance, return it.
CreateResolved(c) ==
    /\ call[c].pc = "creating"
    /\ instance' = call[c].inv
    /\ call' = [call EXCEPT ![c].pc = "resolved", ![c].result = call[c].inv]
    /\ UNCHANGED <<config, network, started, cleared, workerVars, decVars, mwVars, rateVars, auxVars>>

\* part_010:83-94  createFhevmInstance threw `thrown`.
RoutineErrors == {"AbortError", "Error"}

\* the caught value thrown on as it is
Rethrow(signal, thrown) == [error |-> thrown, cause |-> "none"]

\* part_010:85-93: FhevmAbortError, or FhevmInstanceError with the cause
Wrap(signal, thrown) ==
    IF signal = "aborted" \/ thrown = "AbortError"
    THEN [error |-> "AbortError", cause |-> "none"]
    ELSE [error |-> "InstanceError", cause |-> thrown]

CreateRejected(c, thrown) ==
    /\ call[c].pc = "creating"
    /\ thrown = "AbortError" => call[c].signal = "aborted"
    /\ call' = [call EXCEPT
                  ![c].pc = "rejected",
                  ![c].error = Wrap(call[c].signal, thrown).error,
                  ![c].cause = Wrap(call[c].signal, thrown).cause]
    /\ UNCHANGED <<config, network, instance, started, cleared, workerVars, decVars, mwVars, rateVars, auxVars>>

\* part_010:112-115 and part_012:101-104
clearInstance ==
    /\ instance # NoInstance
    /\ instance' = NoInstance
    /\ cleared' = TRUE
    /\ UNCHANGED <<config, network, call, started, workerVars, decVars, mwVars, rateVars, auxVars>>

(***************************************************************************)
(* Worker bridge: FheWorker (browser transport, "web") and FheWorkerNode    *)
(* (worker_threads transport, "node").  Both objects are driven by the same *)
(* calls and the same worker events, so that what a caller observes of one  *)
(* can be compared with what it observes of the other.                      *)
(***************************************************************************)
Transports == {"web", "node"}

Ops == 1..MaxOps

ReplyTypes == {"response", "error", "other"}

\* An encrypt()/decrypt() call: where it stands, the init promise it awaits,
\* the id sendRequest gave it, its promise, and how often resolve/reject of
\* that promise was invoked.
IdleOp ==
    [phase |-> "idle", init |-> 0, id |-> 0, state |-> "none", error |-> "none",
     value |-> "none", settles |-> 0]

\* FheWorker.node.ts:26-36 / 396-407 and the constructors 38-45 / 409-423:
\* FheWorker creates its worker and installs the persistent handlers in the
\* constructor; FheWorkerNode creates the worker in init().
NewBridge(t) ==
    [worker |-> t = "web",          \* this.worker # null
     dead |-> FALSE,                \* the worker thread has exited (node, after 'error')
     handler |-> t = "web",         \* setupMessageHandler's listeners are on this.worker
     isInitialized |-> FALSE,
     initPromise |-> 0,             \* 0: null, else an index of inits
     inits |-> <<>>,                \* the init promises created so far
     requestIdCounter |-> 0,
     pendingRequests |-> {},        \* Map id -> callbacks, as pairs <<id, op>>
     timers |-> {},                 \* ops whose 60 s timeout is armed
     issued |-> <<>>,               \* the ids sendRequest assigned, in order
     inbox |-> {},                  \* request ids the worker has still to answer
     initInbox |-> 0,               \* init messages the worker has still to answer
     ops |-> [k \in Ops |-> IdleOp]]

PendingIds(b) == {p[1] : p \in b.pendingRequests}

PendingOps(b) == {p[2] : p \in b.pendingRequests}

\* Map.set(id, entry) and Map.delete(id)
MapSet(m, id, k) == {p \in m : p[1] # id} \cup {<<id, k>>}

\* the table emptied
MapClear(m, id) == {}

MapDelete(m, id) == {p \in m : p[1] # id}

\* resolve(...) / reject(...) of an op's promise: the first call settles it
Settle(op, state, error) ==
    [op EXCEPT !.state = IF op.state = "pending" THEN state ELSE @,
               !.error = IF op.state = "pending" THEN error ELSE @,
               !.settles = @ + 1]

\* resolve() / reject(...) of an init promise
SettleInit(p, state, error) ==
    [p EXCEPT !.state = IF p.state = "pending" THEN state ELSE @,
              !.error = IF p.state = "pending" THEN error ELSE @]

\* FheWorker.node.ts:64-129 (FheWorkerNode.init) and 466-527 (FheWorker.init)
init(t, b) ==
    IF b.isInitialized \/ b.initPromise # 0 THEN b
    ELSE IF t = "node"
    THEN [b EXCEPT
            !.worker = TRUE, !.dead = FALSE, !.handler = FALSE,
            !.inbox = {}, !.initInbox = 1,
            !.inits = Append(@, [state |-> "pending", error |-> "none", timer |-> TRUE,
                                 listener |-> TRUE, errListener |-> TRUE]),
            !.initPromise = Len(b.inits) + 1]
    ELSE IF b.worker
    THEN [b EXCEPT
            !.initInbox = @ + 1,
            !.inits = Append(@, [state |-> "pending", error |-> "none", timer |-> TRUE,
                                 listener |-> TRUE, errListener |-> FALSE]),
            !.initPromise = Len(b.inits) + 1]
    ELSE \* 612-615: sendMessage throws inside the promise executor
         [b EXCEPT
            !.inits = Append(@, [state |-> "rejected", error |-> "Worker not initialized",
                                 timer |-> TRUE, listener |-> FALSE,
                                 errListener |-> FALSE]),
            !.initPromise = Len(b.inits) + 1]

\* init() would create a promise
InitCreates(b) == ~b.isInitialized /\ b.initPromise = 0

\* FheWorker.node.ts:134-139, 200-204 / 532-537, 603-607: encrypt()/decrypt()
\* up to their first await.
callOp(t, b, k) ==
    IF b.isInitialized
    THEN [b EXCEPT !.ops[k].phase = "resume"]
    ELSE LET b1 == init(t, b)
         IN  [b1 EXCEPT !.ops[k].phase = "awaitInit", !.ops[k].init = b1.initPromise]

\* FheWorker.node.ts:224-238 / 628-642, with sendMessage 209-219 / 612-623
NextIdSame(b) == IF b.requestIdCounter = 0 THEN 1 ELSE b.requestIdCounter

NextId(b) == b.requestIdCounter + 1

sendRequest(b, k) ==
    LET id == NextId(b)
    IN  [b EXCEPT
           !.requestIdCounter = id,
           !.issued = Append(@, id),
           !.timers = @ \cup {k},
           !.pendingRequests = MapSet(@, id, k),
           !.inbox = IF b.worker /\ ~b.dead THEN @ \cup {id} ELSE @,
           !.ops[k] = IF b.worker
                      THEN [@ EXCEPT !.phase = "sent", !.id = id, !.state = "pending"]
                      ELSE [@ EXCEPT !.phase = "unsent", !.id = id, !.state = "rejected",
                                     !.error = "Worker not initialized", !.settles = 1]]

\* The continuation of an encrypt()/decrypt() call is ready to run.
Runnable(b, k) ==
    \/ b.ops[k].phase = "resume"
    \/ b.ops[k].phase = "awaitInit" /\ b.inits[b.ops[k].init].state # "pending"

\* The call resumes after `await this.ensureInitialized()`.
resume(t, b, k) ==
    IF ~Runnable(b, k) THEN b
    ELSE IF b.ops[k].phase = "awaitInit" /\ b.inits[b.ops[k].init].state = "rejected"
    THEN [b EXCEPT !.ops[k] = [@ EXCEPT !.phase = "failed", !.state = "rejected",
                                        !.error = b.inits[b.ops[k].init].error,
                                        !.settles = 1]]
    ELSE sendRequest(b, k)

\* FheWorker.node.ts:697-717 (FheWorker.handleMessage) and 260-272 (the body of
\* FheWorkerNode's persistent listener) for a message carrying `id`.
HasEntry(b, id) == id \in PendingIds(b)

EntryOp(b, id) == (CHOOSE p \in b.pendingRequests : p[1] = id)[2]

\* A message of the worker: id 0 stands for no id, error "none" for no text.
Msg(id, type) ==
    [id |-> id, type |-> type, payload |-> "payload",
     error |-> IF type = "error" THEN "failed" ELSE "none"]

\* resolve(value) of an op's promise
Fulfil(op, value) ==
    [Settle(op, "resolved", "none") EXCEPT !.value = IF op.state = "pending" THEN value ELSE @]

\* every message resolves the request
OutcomeResolves(op, msg) == Fulfil(op, msg.payload)

\* FheWorker.node.ts:265-271 / 710-716
Outcome(op, msg) ==
    IF msg.type = "response" THEN Fulfil(op, msg.payload)
    ELSE IF msg.type = "error"
    THEN Settle(op, "rejected", IF msg.error = "none" THEN "Worker error" ELSE msg.error)
    ELSE Fulfil(op, msg.payload)

handleMessage(b, msg) ==
    IF msg.id # 0 /\ HasEntry(b, msg.id)
    THEN LET k == EntryOp(b, msg.id)
         IN  [b EXCEPT
                !.timers = @ \ {k},
                !.pendingRequests = MapDelete(@, msg.id),
                !.ops[k] = Outcome(@, msg)]
    ELSE b

\* The worker posts msg: the persistent listener, if installed, gets it
\* (250-273 / 654-656, 676-679); the one-shot init listener ignores it
\* (78-91 / 482-511).
post(t, b, msg) ==
    LET b1 == [b EXCEPT !.inbox = @ \ {msg.id}]
    IN  IF b.handler THEN handleMessage(b1, msg) ELSE b1

\* The worker answers request `id` with a message of `type`
\* (fhe-worker.node.js:110-152).
reply(t, b, id, type) ==
    IF id \notin b.inbox THEN b
    ELSE post(t, b, Msg(id, type))

\* The 60 s timeout of op k's request fires (229-232 / 633-636).
TimeoutKeepsEntry(m, id) == m

TimeoutDelete(m, id) == MapDelete(m, id)

timeout(t, b, k) ==
    IF k \notin b.timers THEN b
    ELSE [b EXCEPT
            !.timers = @ \ {k},
            !.pendingRequests = TimeoutDelete(@, b.ops[k].id),
            !.ops[k] = Settle(@, "rejected", "Worker request timeout")]

\* pendingRequests.forEach(({reject, timeout}) => {clearTimeout; reject(error)});
\* pendingRequests.clear()      (182-186, 278-282 / 582-586, 662-666, 685-689)
RejectSome(b, error) ==
    IF b.pendingRequests = {} THEN b
    ELSE LET first == CHOOSE k \in PendingOps(b) : \A j \in PendingOps(b) : k <= j
         IN  [b EXCEPT
                !.ops = [k \in Ops |-> IF k = first THEN Settle(b.ops[k], "rejected", error)
                                       ELSE b.ops[k]],
                !.timers = @ \ {first},
                !.pendingRequests = {}]

RejectAll(b, error) ==
    [b EXCEPT
       !.ops = [k \in Ops |-> IF k \in PendingOps(b)
                              THEN Settle(b.ops[k], "rejected", error)
                              ELSE b.ops[k]],
       !.timers = @ \ PendingOps(b),
       !.pendingRequests = {}]

\* the listeners of a worker go with the worker
Detach(inits) ==
    [i \in DOMAIN inits |-> [inits[i] EXCEPT !.listener = FALSE, !.errListener = FALSE]]

\* FheWorker.node.ts:175-188 (FheWorkerNode.terminate) and 574-591 (FheWorker.terminate)
terminate(t, b) ==
    IF ~b.worker THEN b
    ELSE RejectAll([b EXCEPT !.worker = FALSE, !.dead = FALSE, !.handler = FALSE,
                             !.isInitialized = FALSE, !.initPromise = 0,
                             !.inits = Detach(@), !.inbox = {}, !.initInbox = 0],
                   "Worker terminated")

\* The worker answers `init` with the no-id message `ready`
\* (78-85 / 483-487, 501-505; the persistent listeners drop it: 252-254, 704).
ready(t, b) ==
    IF b.initInbox = 0 THEN b
    ELSE LET b1 == [b EXCEPT !.initInbox = @ - 1]
         IN  IF \E i \in DOMAIN b.inits : b.inits[i].listener
             THEN [b1 EXCEPT
                     !.isInitialized = TRUE,
                     !.handler = IF t = "node" THEN TRUE ELSE @,
                     !.inits = [i \in DOMAIN b.inits |->
                                  IF b.inits[i].listener
                                  THEN [SettleInit(b.inits[i], "resolved", "none")
                                          EXCEPT !.timer = FALSE, !.listener = FALSE]
                                  ELSE b.inits[i]]]
             ELSE b1

\* The worker answers `init` with an init-scoped `error` message (86-90 / 488-492,
\* 506-510).
initError(t, b) ==
    IF b.initInbox = 0 THEN b
    ELSE [b EXCEPT
            !.initInbox = @ - 1,
            !.inits = [i \in DOMAIN b.inits |->
                         IF b.inits[i].listener
                         THEN [SettleInit(b.inits[i], "rejected",
                                          "Worker initialization failed")
                                 EXCEPT !.timer = FALSE, !.listener = FALSE]
                         ELSE b.inits[i]]]

\* The 30 s initialization timeout of init promise i fires (74-76 / 476-478).
initTimeout(t, b, i) ==
    IF i \notin DOMAIN b.inits \/ ~b.inits[i].timer THEN b
    ELSE [b EXCEPT !.inits[i] = [SettleInit(@, "rejected", "Worker initialization timeout")
                                   EXCEPT !.timer = FALSE]]

\* The transport raises its error event.  FheWorker (658-667, 681-690): the
\* persistent listener rejects what is pending.  FheWorkerNode: the listener
\* init() installed rejects the init promise (106-109), the persistent one, once
\* installed, rejects what is pending (275-283); a worker thread that raised
\* 'error' has exited and answers nothing any more.
transportError(t, b) ==
    IF ~b.worker \/ b.dead THEN b
    ELSE LET b1 == IF b.handler THEN RejectAll(b, "Worker error") ELSE b
         IN  IF t = "web" THEN b1
             ELSE [b1 EXCEPT
                     !.dead = TRUE, !.inbox = {}, !.initInbox = 0,
                     !.inits = [i \in DOMAIN b.inits |->
                                  IF b.inits[i].errListener
                                  THEN [SettleInit(b.inits[i], "rejected", "Worker error")
                                          EXCEPT !.timer = FALSE]
                                  ELSE b.inits[i]]]

\* Continuations of awaits run before the next timer or worker event is handled.
NoMicrotask == \A t \in active, k \in Ops : ~Runnable(bridge[t], k)

Lockstep(F(_, _)) ==
    /\ bridge' = [t \in Transports |-> IF t \in active THEN F(t, bridge[t]) ELSE bridge[t]]
    /\ UNCHANGED active

\* ---- calls of the application ----
Init_ ==
    /\ \A t \in active : InitCreates(bridge[t]) => Len(bridge[t].inits) < MaxInits
    /\ Lockstep(init)
    /\ event' = IF bridge' = bridge THEN event    \* init() returned what there was
                ELSE [type |-> "init", arg |-> 0, kind |-> "none"]
    /\ UNCHANGED <<instVars, decVars, mwVars, rateVars, auxVars>>

\* init() called once more on a bridge that was terminated: a further session
Reinit ==
    /\ \A t \in active :
          /\ InitCreates(bridge[t])
          /\ ~bridge[t].worker
          /\ Len(bridge[t].inits) = MaxInits
    /\ Lockstep(init)
    /\ event' = [type |-> "init", arg |-> 0, kind |-> "none"]
    /\ UNCHANGED <<instVars, decVars, mwVars, rateVars, auxVars>>

CallOp(k) ==
    /\ \A t \in active :
          /\ bridge[t].ops[k].phase = "idle"
          /\ \A j \in Ops : j < k => bridge[t].ops[j].phase # "idle"
          /\ InitCreates(bridge[t]) => Len(bridge[t].inits) < MaxInits
    /\ Lockstep(LAMBDA t, b : callOp(t, b, k))
    /\ event' = [type |-> "call", arg |-> k, kind |-> "none"]
    /\ UNCHANGED <<instVars, decVars, mwVars, rateVars, auxVars>>

Resume(k) ==
    /\ \E t \in active : Runnable(bridge[t], k)
    /\ Lockstep(LAMBDA t, b : resume(t, b, k))
    /\ event' = [type |-> "resume", arg |-> k, kind |-> "none"]
    /\ UNCHANGED <<instVars, decVars, mwVars, rateVars, auxVars>>

Terminate ==
    /\ Lockstep(terminate)
    /\ event' = IF bridge' = bridge THEN event    \* there was no worker to terminate
                ELSE [type |-> "terminate", arg |-> 0, kind |-> "none"]
    /\ UNCHANGED <<instVars, decVars, mwVars, rateVars, auxVars>>

\* ---- timers and worker events ----
Reply(id, type) ==
    /\ NoMicrotask
    /\ \E t \in active : id \in bridge[t].inbox
    /\ Lockstep(LAMBDA t, b : reply(t, b, id, type))
    /\ event' = [type |-> "reply", arg |-> id, kind |-> type]
    /\ UNCHANGED <<instVars, decVars, mwVars, rateVars, auxVars>>

Timeout(k) ==
    /\ NoMicrotask
    /\ \E t \in active : k \in bridge[t].timers
    /\ Lockstep(LAMBDA t, b : timeout(t, b, k))
    /\ event' = [type |-> "timeout", arg |-> k, kind |-> "none"]
    /\ UNCHANGED <<instVars, decVars, mwVars, rateVars, auxVars>>

Ready ==
    /\ NoMicrotask
    /\ \E t \in active : bridge[t].initInbox > 0
    /\ Lockstep(ready)
    /\ event' = [type |-> "ready", arg |-> 0, kind |-> "none"]
    /\ UNCHANGED <<instVars, decVars, mwVars, rateVars, auxVars>>

InitError ==
    /\ NoMicrotask
    /\ \E t \in active : bridge[t].initInbox > 0
    /\ Lockstep(initError)
    /\ event' = [type |-> "initError", arg |-> 0, kind |-> "none"]
    /\ UNCHANGED <<instVars, decVars, mwVars, rateVars, auxVars>>

InitTimeout(i) ==
    /\ NoMicrotask
    /\ \E t \in active : i \in DOMAIN bridge[t].inits /\ bridge[t].inits[i].timer
    /\ Lockstep(LAMBDA t, b : initTimeout(t, b, i))
    /\ event' = [type |-> "initTimeout", arg |-> i, kind |-> "none"]
    /\ UNCHANGED <<instVars, decVars, mwVars, rateVars, auxVars>>

TransportError ==
    /\ NoMicrotask
    /\ \E t \in active : bridge[t].worker /\ ~bridge[t].dead
    /\ Lockstep(transportError)
    /\ event' = [type |-> "transportError", arg |-> 0, kind |-> "none"]
    /\ UNCHANGED <<instVars, decVars, mwVars, rateVars, auxVars>>

\* the messages a worker may post besides `ready` and the init-scoped error:
\* with or without id, with an id that is or is not pending, with or without
\* an error text
Messages ==
    {m \in [id : 0..MaxOps, type : ReplyTypes, payload : {"payload"},
            error : {"none", "failed"}] :
        m.type # "error" => m.error = "none"}

\* a live worker posts msg
Post(msg) ==
    /\ NoMicrotask
    /\ \A t \in active : bridge[t].worker /\ ~bridge[t].dead
    /\ Lockstep(LAMBDA t, b : post(t, b, msg))
    /\ event' = [type |-> "post", arg |-> msg.id, kind |-> msg.type, text |-> msg.error]
    /\ UNCHANGED <<instVars, decVars, mwVars, rateVars, auxVars>>

InitWorker ==
    /\ active \in {{"web"}, {"node"}, Transports}
    /\ bridge = [t \in Transports |-> NewBridge(t)]
    /\ event = [type |-> "new", arg |-> 0, kind |-> "none"]

NextWorker ==
    \/ Init_
    \/ \E k \in Ops : CallOp(k)
    \/ \E k \in Ops : Resume(k)
    \/ Terminate
    \/ \E id \in 1..MaxOps, type \in ReplyTypes : Reply(id, type)
    \/ \E k \in Ops : Timeout(k)
    \/ Ready
    \/ InitError
    \/ \E i \in 1..(MaxInits + 1) : InitTimeout(i)
    \/ TransportError

(***************************************************************************)
(* Decrypt orchestrator (part_011) and the decryption-signature cache it    *)
(* calls, FhevmDecryptionSignature.loadOrSign.                              *)
(***************************************************************************)
DCalls == 1..MaxDecrypts

Range(seq) == {seq[i] : i \in DOMAIN seq}

\* Contract addresses, listed in the order of their strings.
A == "0xA"
B == "0xB"
C == "0xC"
Addresses == <<A, B, C>>

\* utils/validation.ts:12-14; "bad" is a string that is no address
isValidAddress(a) == a \in Range(Addresses)

\* the position of an address in the string order
Rank(a) == CHOOSE i \in DOMAIN Addresses : Addresses[i] = a

Req(h, a) == [handle |-> h, contractAddress |-> a]

Params(signer, requests) == [signer |-> signer, requests |-> requests]

\* The parameters the calls are given: requests over {A,B}, over the same set in
\* another order, over {A,B,C}, by another user, and the three malformed ones.
DecryptParams ==
    { Params("u1", <<Req(1, A), Req(2, A), Req(3, B)>>),
      Params("u1", <<Req(3, B), Req(1, A), Req(2, A)>>),
      Params("u1", <<Req(1, A), Req(3, B), Req(4, C)>>),
      Params("u2", <<Req(1, A), Req(2, A), Req(3, B)>>),
      Params("none", <<Req(1, A), Req(2, A), Req(3, B)>>),
      Params("u1", <<>>),
      Params("u1", <<Req(1, "bad")>>) }

\* ... and the ones batchDecrypt is given
BatchParams ==
    { Params("u1", <<Req(1, A), Req(2, A), Req(3, B)>>),
      Params("u1", <<>>) }

Front(seq) == SubSeq(seq, 1, Len(seq) - 1)

\* utils/validation.ts:46-70
validateDecryptRequests(reqs) ==
    /\ reqs # <<>>
    /\ \A i \in DOMAIN reqs : isValidAddress(reqs[i].contractAddress)

\* part_011:378-380  Array.from(new Set(requests.map(r => r.contractAddress)))
RECURSIVE Dedupe(_)
Dedupe(seq) ==
    IF seq = <<>> THEN <<>>
    ELSE LET r == Dedupe(Front(seq))
         IN  IF seq[Len(seq)] \in Range(r) THEN r ELSE Append(r, seq[Len(seq)])

FirstAddressOnly(reqs) == <<reqs[1].contractAddress>>

uniqueAddresses(reqs) == Dedupe([i \in DOMAIN reqs |-> reqs[i].contractAddress])

\* the contract addresses a request list names, as a set
AddrSet(reqs) == {reqs[i].contractAddress : i \in DOMAIN reqs}

\* ---- FhevmDecryptionSignature.loadOrSign ----
SecondsPerDay == 86400

Timestamp == now * SecondsPerDay

\* (1) the sorted, deduplicated list
RECURSIVE SortSet(_)
SortSet(S) ==
    IF S = {} THEN <<>>
    ELSE LET m == CHOOSE x \in S : \A y \in S : Rank(x) <= Rank(y)
         IN  <<m>> \o SortSet(S \ {m})

Normalize(addresses) == SortSet(Range(addresses))

\* (2) the cache key; the chain is the one chain of the client
CacheKey(user, addresses) == <<user, Normalize(addresses)>>

\* (3) the stored signature of a key, if any
Stored(key) == {e \in storage : e.key = key}

IsValidForever(sig) == TRUE

IsValid(sig) == Timestamp < sig.startTimestamp + sig.durationDays * SecondsPerDay

\* the signTypedData invocations for a key that have not settled
Outstanding(key) ==
    {i \in DOMAIN signLog : signLog[i].open /\ CacheKey(signLog[i].user, signLog[i].addresses) = key}

\* storage.setItem(key, value)
SetItem(key, sig) == {e \in storage : e.key # key} \cup {[key |-> key, sig |-> sig]}

IdleDCall ==
    [pc |-> "idle", batch |-> FALSE, user |-> "none", reqs |-> <<>>, prompt |-> 0,
     sig |-> 0, udCalls |-> 0, udReqs |-> <<>>, results |-> <<>>, error |-> "none"]

\* part_011:401-413  instance.userDecrypt(requests.map(...), signature...)
userDecryptArgs(reqs) == reqs

\* part_011:387-398  loadOrSign for call d; `entered` is the call table with the
\* call's parameters recorded.
loadOrSign(entered, d, user, addresses) ==
    LET key == CacheKey(user, addresses)
        hit == {e \in Stored(key) : IsValid(e.sig)}
    IN  IF hit # {}
        THEN /\ dcall' = [entered EXCEPT
                            ![d].pc = "decrypting",
                            ![d].sig = (CHOOSE e \in hit : TRUE).sig.id,
                            ![d].udCalls = 1,
                            ![d].udReqs = userDecryptArgs(entered[d].reqs)]
             /\ UNCHANGED signLog
        ELSE IF Outstanding(key) # {}
        THEN /\ dcall' = [entered EXCEPT
                            ![d].pc = "signing",
                            ![d].prompt = CHOOSE i \in Outstanding(key) : TRUE]
             /\ UNCHANGED signLog
        ELSE /\ dcall' = [entered EXCEPT ![d].pc = "signing",
                                         ![d].prompt = Len(signLog) + 1]
             /\ signLog' = Append(signLog,
                                  [user |-> user, addresses |-> Normalize(addresses),
                                   by |-> d, open |-> TRUE, start |-> Timestamp])

\* part_011:336-419  decrypt(client, {signer, requests}) up to its first await
\* that has to wait; the decrypt middleware chain of the client is empty
\* (part_012:37-40), so execute() runs the handler at once (middleware.ts:54-70).
decryptBody(entered, d, user, reqs) ==
    IF instance = NoInstance \/ user = "none" \/ ~validateDecryptRequests(reqs)
    THEN \* 362-373: a ConfigError, caught at 429-453; its message holds no "sign"
         /\ dcall' = [entered EXCEPT ![d].pc = "rejected", ![d].error = "DecryptionError"]
         /\ UNCHANGED signLog
    ELSE loadOrSign(entered, d, user, uniqueAddresses(reqs))

DEnter(d, batch, user, reqs) ==
    [dcall EXCEPT ![d].batch = batch, ![d].user = user, ![d].reqs = reqs]

NextDCall(d) == dcall[d].pc = "idle" /\ \A j \in DCalls : j < d => dcall[j].pc # "idle"

decrypt(d, user, reqs) ==
    /\ NextDCall(d)
    /\ decryptBody(DEnter(d, FALSE, user, reqs), d, user, reqs)
    /\ UNCHANGED <<now, storage, instVars, workerVars, mwVars, rateVars, auxVars>>

\* part_011:147-173
batchDecrypt(d, user, reqs) ==
    /\ NextDCall(d)
    /\ IF reqs = <<>>
       THEN /\ dcall' = [DEnter(d, TRUE, user, reqs) EXCEPT
                            ![d].pc = "rejected", ![d].error = "ConfigError"]
            /\ UNCHANGED signLog
       ELSE decryptBody(DEnter(d, TRUE, user, reqs), d, user, reqs)
    /\ UNCHANGED <<now, storage, instVars, workerVars, mwVars, rateVars, auxVars>>

Waiting(i) == {d \in DCalls : dcall[d].pc = "signing" /\ dcall[d].prompt = i}

\* (5)-(7): the signer signed; the signature is persisted under the key and
\* every call waiting for it goes on to userDecrypt (part_011:401).
SignResolved(i) ==
    /\ i \in DOMAIN signLog /\ signLog[i].open
    /\ LET sig == [id |-> i, userAddress |-> signLog[i].user,
                   contractAddresses |-> signLog[i].addresses,
                   startTimestamp |-> signLog[i].start, durationDays |-> DurationDays]
       IN  storage' = SetItem(<<signLog[i].user, signLog[i].addresses>>, sig)
    /\ signLog' = [signLog EXCEPT ![i].open = FALSE]
    /\ dcall' = [d \in DCalls |->
                   IF d \in Waiting(i)
                   THEN [dcall[d] EXCEPT !.pc = "decrypting", !.sig = i, !.udCalls = 1,
                                         !.udReqs = userDecryptArgs(dcall[d].reqs)]
                   ELSE dcall[d]]
    /\ UNCHANGED <<now, instVars, workerVars, mwVars, rateVars, auxVars>>

\* every caught error reported as a decryption failure
ClassifyNever(mentionsSign) == "DecryptionError"

\* part_011:443-453: the kind of the error decrypt rethrows, by whether the
\* caught error's message contains "signature" or "sign"
Classify(mentionsSign) == IF mentionsSign THEN "SignatureError" ELSE "DecryptionError"

\* The signer failed or refused: loadOrSign yields no signature, nothing is
\* stored, and decrypt throws "Failed to create decryption signature"
\* (part_011:394-396, then 443-447).
SignRejected(i) ==
    /\ i \in DOMAIN signLog /\ signLog[i].open
    /\ signLog' = [signLog EXCEPT ![i].open = FALSE]
    /\ dcall' = [d \in DCalls |->
                   IF d \in Waiting(i)
                   THEN [dcall[d] EXCEPT !.pc = "rejected", !.error = Classify(TRUE)]
                   ELSE dcall[d]]
    /\ UNCHANGED <<now, storage, instVars, workerVars, mwVars, rateVars, auxVars>>

\* the engine's answer: a value for every handle it was asked for
Value(h) == 100 + h

UserDecryptResolved(d) ==
    /\ dcall[d].pc = "decrypting"
    /\ dcall' = [dcall EXCEPT
                   ![d].pc = "resolved",
                   ![d].results = {<<dcall[d].udReqs[i].handle,
                                     Value(dcall[d].udReqs[i].handle)>> :
                                        i \in DOMAIN dcall[d].udReqs}]
    /\ UNCHANGED <<now, storage, signLog, instVars, workerVars, mwVars, rateVars, auxVars>>

\* part_011:429-453: userDecrypt threw; the message decides the kind
UserDecryptRejected(d, mentionsSign) ==
    /\ dcall[d].pc = "decrypting"
    /\ dcall' = [dcall EXCEPT
                   ![d].pc = "rejected",
                   ![d].error = Classify(mentionsSign)]
    /\ UNCHANGED <<now, storage, signLog, instVars, workerVars, mwVars, rateVars, auxVars>>

\* Time passes.
TickClock ==
    /\ now < MaxTicks
    /\ now' = now + 1
    /\ UNCHANGED <<storage, signLog, dcall, instVars, workerVars, mwVars, rateVars, auxVars>>

InitDecrypt ==
    /\ now = 0
    /\ storage = {}
    /\ signLog = <<>>
    /\ dcall = [d \in DCalls |-> IdleDCall]

NextDecrypt ==
    \/ \E d \in DCalls, p \in DecryptParams : decrypt(d, p.signer, p.requests)
    \/ \E d \in DCalls, p \in BatchParams : batchDecrypt(d, p.signer, p.requests)
    \/ \E i \in 1..MaxDecrypts : SignResolved(i)
    \/ \E i \in 1..MaxDecrypts : SignRejected(i)
    \/ \E d \in DCalls : UserDecryptResolved(d)
    \/ \E d \in DCalls, mentionsSign \in BOOLEAN : UserDecryptRejected(d, mentionsSign)
    \/ TickClock

(***************************************************************************)
(* Middleware pipeline (middleware.ts).  An operation is one call of         *)
(* MiddlewareChain.execute(context, finalHandler), as decrypt makes it        *)
(* (part_011:351-419), or one call of encrypt (core/client.ts:157-206).       *)
(***************************************************************************)
Execs == 1..MaxExecs

Kinds == {"retry", "dedupe", "logging", "performance"}

\* The lists of middlewares registered with use(), middleware.ts:46-49.  A client
\* has two chains, middleware.encrypt and middleware.decrypt (part_012:37-40);
\* the list is the one registered on each of them.
Chains ==
    { <<>>,
      <<"retry">>,
      <<"dedupe">>,
      <<"retry", "dedupe">>,
      <<"dedupe", "retry">>,
      <<"logging", "performance">>,
      <<"retry", "dedupe", "logging">> }

\* middleware.ts:97-108, the options of retryMiddleware
RetryOptions ==
    [maxRetries : 0..MaxRetries, initialDelay : {1, 3}, maxDelay : {2},
     backoffFactor : {2}]

DefaultRetry ==
    [maxRetries |-> MaxRetries, initialDelay |-> 1, maxDelay |-> 2, backoffFactor |-> 2]

\* the keys of generateCacheKey
Keys == {"k1", "k2"}

\* part_011:352-357: the context of a decrypt, requests.length and Date.now()
DecryptContexts == [requestCount : {1}, timestamp : {1, 2}]

\* middleware.ts:319-326: `decrypt:${requestCount}:${timestamp}`, one key for
\* each pair of DecryptContexts
generateCacheKey(context) == IF context.timestamp = 1 THEN "k1" ELSE "k2"

\* the handle lists of a decrypt, each of one request
HandleLists == {"h1", "h2"}

\* the engine's userDecrypt: the clear values of the handles it is given
userDecrypt(handles) == IF handles = "h1" THEN "c1" ELSE "c2"

\* What a promise settles with.  "network" is an error whose message the
\* default shouldRetry accepts (middleware.ts:102-107), "fatal" one it does not,
\* "metric" what a throwing onMetric callback throws.
Resolved(v) == [ok |-> TRUE, val |-> v]

Rejected(err) == [ok |-> FALSE, val |-> err]

NoOutcome == [ok |-> FALSE, val |-> "none"]

EngineErrors == {"network", "fatal"}

shouldRetryAlways(err) == TRUE

shouldRetry(err) == err = "network"

\* the shapes of the input of an operation
Shapes == {"ok", "invalid"}

IdleExec ==
    [pc |-> "idle", op |-> "none", key |-> "none",
     index |-> 0,           \* `index` of execute()
     stack |-> <<>>,        \* the middlewares awaiting their next(), outermost first
     entered |-> <<>>,      \* positions of the middlewares entered, in order
     enteredFrom |-> <<>>,  \* for each, the position whose next() entered it (0: execute)
     calledNext |-> <<>>,   \* positions that called next(), in order (0: execute)
     exited |-> <<>>,       \* positions of the middlewares that returned or threw
     finals |-> 0,          \* invocations of finalHandler / of the engine
     shape |-> "ok",        \* the input: "ok", or "invalid" (validation rejects it)
     input |-> "h1",        \* the handles of a decrypt
     engine |-> 0,          \* invocations of the engine
     emitted |-> 0,         \* error events emitted for the operation
     thrown |-> "none",     \* the kind of the error the caller receives
     cause |-> "none",      \* and its cause
     waits |-> <<>>,        \* the delays the retry middleware waited
     joined |-> 0,          \* the operation whose pending promise dedupe returned
     fout |-> NoOutcome,    \* what the last finalHandler invocation settled with
     out |-> NoOutcome]     \* what the operation settled with

Frame(pos) == [pos |-> pos, attempt |-> 0, delay |-> cfg.initialDelay, lastError |-> "none"]

Top(stack) == stack[Len(stack)]

Min(a, b) == IF a <= b THEN a ELSE b

\* middleware.ts:152  pendingRequests.has(key)
HasPending(p, key) == \E q \in p : q[1] = key

OwnerOf(p, key) == (CHOOSE q \in p : q[1] = key)[2]

\* middleware.ts:158-160  next().finally(() => pendingRequests.delete(key))
KeepOnReject(p, key, ok) == IF ok THEN {q \in p : q[1] # key} ELSE p

DeleteEntry(p, key, ok) == {q \in p : q[1] # key}

\* part_011:443-453 (decrypt), core/client.ts:200-204 (encrypt), part_011:513-518
\* (publicDecrypt): the kind of the typed error that wraps the caught one.  None
\* of the errors of the engine, of the checks or of a callback has a message
\* that contains "sign".
Rethrown(op, err) ==
    CASE op = "decrypt" -> Classify(FALSE)
      [] op = "encrypt" -> "EncryptionError"
      [] OTHER -> "DecryptionError"

\* part_011:431-441: decrypt emits decrypt:error (and the generic error event)
\* once in its catch block; encrypt and publicDecrypt emit nothing
ErrorEvents(op) == IF op = "decrypt" THEN 1 ELSE 0

\* The operation settles with o at the orchestrator: part_011:421-453,
\* core/client.ts:182-205, part_011:503-519.
Boundary(x, o) ==
    IF o.ok
    THEN [x EXCEPT !.pc = "resolved", !.out = o]
    ELSE [x EXCEPT !.pc = "rejected", !.out = o,
                   !.emitted = @ + ErrorEvents(x.op),
                   !.thrown = Rethrown(x.op, o.val),
                   !.cause = o.val]

RECURSIVE Descend(_, _, _, _)
RECURSIVE Unwind(_, _, _, _)
RECURSIVE UnwindAll(_, _, _, _)

\* middleware.ts:60-67: next() called by the middleware at position `from`
\* (0: by execute itself), and everything that runs before the first await
\* that has to wait.  w is [x |-> the operations, p |-> the dedupe table].
Descend(w, e, from, throws) ==
    LET x  == w.x[e]
        x1 == [x EXCEPT !.calledNext = Append(@, from)]
    IN  IF x.index >= Len(chain) /\ x.shape = "invalid"
        THEN \* part_011:358-373: the handler's checks throw a FhevmConfigError
             Unwind([w EXCEPT !.x[e] = [x1 EXCEPT !.finals = @ + 1,
                                                  !.fout = Rejected("config")]],
                    e, Rejected("config"), throws)
        ELSE IF x.index >= Len(chain)
        THEN [w EXCEPT !.x[e] = [x1 EXCEPT !.pc = "final", !.finals = @ + 1,
                                           !.engine = @ + 1]]
        ELSE LET pos == x.index + 1
                 x2  == [x1 EXCEPT !.index = pos,
                                   !.entered = Append(@, pos),
                                   !.enteredFrom = Append(@, from)]
                 in  == [x2 EXCEPT !.stack = Append(@, Frame(pos))]
             IN  IF chain[pos] = "dedupe" /\ HasPending(w.p, x.key)
                 THEN \* 152-155: return the pending promise
                      [w EXCEPT !.x[e] = [x2 EXCEPT !.pc = "joined",
                                                    !.joined = OwnerOf(w.p, x.key),
                                                    !.exited = Append(@, pos)]]
                 ELSE IF chain[pos] = "dedupe"
                 THEN \* 158-163
                      Descend([w EXCEPT !.x[e] = in, !.p = @ \cup {<<x.key, e>>}], e, pos,
                              throws)
                 ELSE \* 116, 181, 281: await next()
                      Descend([w EXCEPT !.x[e] = in], e, pos, throws)

\* The promise the innermost frame of operation e awaits settled with o; the
\* frames run on, innermost first, until one waits again or the operation
\* settles.  throws: the onMetric callback throws.
Unwind(w, e, o, throws) ==
    LET x == w.x[e]
    IN  IF x.stack = <<>>
        THEN [w EXCEPT !.x[e] = Boundary(x, o)]
        ELSE LET f      == Top(x.stack)
                 popped == [x EXCEPT !.stack = SubSeq(@, 1, Len(@) - 1),
                                     !.exited = Append(@, f.pos)]
             IN  CASE chain[f.pos] = "retry" ->
                        \* 117-134
                        IF ~o.ok /\ f.attempt # cfg.maxRetries /\ shouldRetry(o.val)
                        THEN [w EXCEPT !.x[e] = [x EXCEPT !.pc = "wait",
                                                          !.stack[Len(x.stack)].lastError = o.val,
                                                          !.waits = Append(@, f.delay)]]
                        ELSE Unwind([w EXCEPT !.x[e] = popped], e, o, throws)
                  [] chain[f.pos] = "dedupe" ->
                        \* 158-160, then whoever awaits the promise
                        LET joiners == {j \in Execs : w.x[j].pc = "joined" /\ w.x[j].joined = e}
                            w1 == [w EXCEPT !.x[e] = popped,
                                            !.p = DeleteEntry(@, x.key, o.ok)]
                        IN  UnwindAll(Unwind(w1, e, o, throws), joiners, o, throws)
                  [] chain[f.pos] = "performance" ->
                        \* 180-214: onMetric is called in the try and in the catch block
                        Unwind([w EXCEPT !.x[e] = popped], e,
                               IF throws THEN Rejected("metric") ELSE o, throws)
                  [] OTHER ->
                        \* 280-300
                        Unwind([w EXCEPT !.x[e] = popped], e, o, throws)

UnwindAll(w, J, o, throws) ==
    IF J = {} THEN w
    ELSE LET j == CHOOSE i \in J : \A k \in J : i <= k
         IN  UnwindAll(Unwind(w, j, o, throws), J \ {j}, o, throws)

World == [x |-> exec, p |-> pend]

NoResult == [item |-> 0, value |-> "none"]

IdleBatch ==
    [pc |-> "idle",
     items |-> <<>>,     \* the operation of each item, in input order
     results |-> <<>>,   \* the values of Promise.all, NoResult where not yet fulfilled
     order |-> <<>>,     \* the items in the order in which they fulfilled
     error |-> "none",   \* what the call rejected with: the error and its cause
     cause |-> "none"]

SettledPcs == {"resolved", "rejected"}

\* the value is put at the first free place
PlaceNext(results, i, v) ==
    LET free == {j \in DOMAIN results : results[j] = NoResult}
    IN  [results EXCEPT ![CHOOSE j \in free : \A k \in free : j <= k] = v]

\* Promise.all (part_011:75): the value of the i-th promise is values[i]
Place(results, i, v) == [results EXCEPT ![i] = v]

\* part_011:75-113: Promise.all over the promises of the items, as the
\* operations go from old to new.  It rejects with the first rejection, and
\* fulfils when every item has fulfilled.
RECURSIVE PromiseAll(_, _, _)
PromiseAll(b, old, new) ==
    LET newly  == {i \in DOMAIN b.items :
                      /\ old[b.items[i]].pc \notin SettledPcs
                      /\ new[b.items[i]].pc \in SettledPcs}
        i      == CHOOSE j \in newly : \A k \in newly : j <= k
        x      == new[b.items[i]]
        seen   == [e \in DOMAIN old |-> IF e = b.items[i] THEN new[e] ELSE old[e]]
    IN  IF b.pc # "pending" \/ newly = {} THEN b
        ELSE IF x.pc = "rejected"
        THEN [b EXCEPT !.pc = "rejected", !.error = x.thrown, !.cause = x.cause]
        ELSE LET b1 == [b EXCEPT
                          !.results = Place(@, i, [item |-> i, value |-> x.out.val]),
                          !.order = Append(@, i)]
             IN  IF \A j \in DOMAIN b1.results : b1.results[j] # NoResult
                 THEN [b1 EXCEPT !.pc = "resolved"]
                 ELSE PromiseAll(b1, seen, new)

Becomes(w) == exec' = w.x /\ pend' = w.p /\ bcall' = PromiseAll(bcall, exec, w.x)

NextExec(e) == exec[e].pc = "idle" /\ \A j \in Execs : j < e => exec[j].pc # "idle"

\* decrypt: client.middleware.decrypt.execute(context, handler), part_011:351
Execute(e, context, handles, shape, throws) ==
    /\ NextExec(e)
    /\ Becomes(Descend([World EXCEPT !.x[e] = [IdleExec EXCEPT !.op = "decrypt",
                                                                !.key = generateCacheKey(context),
                                                                !.input = handles,
                                                                !.shape = shape]],
                       e, 0, throws))
    /\ UNCHANGED <<chain, cfg, rateVars, instVars, workerVars, decVars, auxVars>>

\* core/client.ts:157-206 (encrypt) and part_011:473-519 (publicDecrypt): the
\* operation checks its input and calls the engine
Direct(e, op, key, shape) ==
    /\ NextExec(e)
    /\ LET x == [IdleExec EXCEPT !.op = op, !.key = key, !.shape = shape]
       IN  exec' = [exec EXCEPT ![e] =
                      IF shape = "invalid"
                      THEN \* the FhevmConfigError of the validation, thrown as it is
                           [x EXCEPT !.pc = "rejected", !.out = Rejected("config"),
                                     !.thrown = "ConfigError"]
                      ELSE [x EXCEPT !.pc = "final", !.finals = 1, !.engine = 1]]
    /\ bcall' = PromiseAll(bcall, exec, exec')
    /\ UNCHANGED <<pend, chain, cfg, rateVars, instVars, workerVars, decVars, auxVars>>

encrypt(e, key, shape) == Direct(e, "encrypt", key, shape)

publicDecrypt(e, key, shape) == Direct(e, "publicDecrypt", key, shape)

\* the items a batch can be called with: each a key and the shape of its input
Items == UNION {[1..n -> [key : Keys, shape : Shapes]] : n \in 0..MaxExecs}

\* part_011:60-118: batchEncrypt on a client that has run no operation yet.
\* items.map starts the encrypt of every item before Promise.all awaits any.
batchEncrypt(items) ==
    /\ bcall.pc = "idle"
    /\ \A e \in Execs : exec[e].pc = "idle"
    /\ IF Len(items) = 0
       THEN \* part_011:69-71
            /\ bcall' = [bcall EXCEPT !.pc = "rejected", !.error = "ConfigError"]
            /\ exec' = exec
       ELSE /\ exec' = [e \in Execs |->
                          IF e > Len(items) THEN exec[e]
                          ELSE LET x == [IdleExec EXCEPT !.op = "encrypt",
                                                         !.key = items[e].key,
                                                         !.shape = items[e].shape]
                               IN  IF items[e].shape = "invalid"
                                   THEN [x EXCEPT !.pc = "rejected",
                                                  !.out = Rejected("config"),
                                                  !.thrown = "ConfigError"]
                                   ELSE [x EXCEPT !.pc = "final", !.finals = 1,
                                                  !.engine = 1]]
            /\ bcall' = PromiseAll([bcall EXCEPT
                                      !.pc = "pending",
                                      !.items = [i \in 1..Len(items) |-> i],
                                      !.results = [i \in 1..Len(items) |-> NoResult]],
                                   exec, exec')
    /\ UNCHANGED <<pend, chain, cfg, rateVars, instVars, workerVars, decVars, auxVars>>

\* The finalHandler (the engine) of operation e resolves.
FinalResolved(e, throws) ==
    /\ exec[e].pc = "final"
    /\ LET v == Resolved(userDecrypt(exec[e].input))
       IN  Becomes(Unwind([World EXCEPT !.x[e].fout = v], e, v, throws))
    /\ UNCHANGED <<chain, cfg, rateVars, instVars, workerVars, decVars, auxVars>>

FinalRejected(e, err, throws) ==
    /\ exec[e].pc = "final"
    /\ Becomes(Unwind([World EXCEPT !.x[e].fout = Rejected(err)], e, Rejected(err), throws))
    /\ UNCHANGED <<chain, cfg, rateVars, instVars, workerVars, decVars, auxVars>>

\* middleware.ts:130-133, then 114-116: the retry delay is over
RetryTimer(e) ==
    /\ exec[e].pc = "wait"
    /\ LET f  == Top(exec[e].stack)
           f1 == [f EXCEPT !.attempt = @ + 1,
                           !.delay = Min(f.delay * cfg.backoffFactor, cfg.maxDelay)]
           x1 == [exec[e] EXCEPT !.stack[Len(exec[e].stack)] = f1]
       IN  Becomes(Descend([World EXCEPT !.x[e] = x1], e, f.pos, FALSE))
    /\ UNCHANGED <<chain, cfg, rateVars, instVars, workerVars, decVars, auxVars>>

(***************************************************************************)
(* rateLimitMiddleware (middleware.ts:221-259), one instance registered.     *)
(* clock is Date.now(), window the instance's `requests` array.              *)
(***************************************************************************)
RCalls == 1..MaxRateCalls

\* middleware.ts:221-228, the options the middleware is made with
RateOptions == [maxRequests |-> 1, windowMs |-> 2]

IdleRCall == [pc |-> "idle", wake |-> 0, at |-> 0]

\* middleware.ts:235-237
RECURSIVE DropOld(_, _)
DropOld(requests, t) ==
    IF requests # <<>> /\ requests[1] < t - RateOptions.windowMs
    THEN DropOld(Tail(requests), t)
    ELSE requests

\* middleware.ts:232-257, one run of the middleware's body at time t on the
\* array `requests`: the array afterwards, whether next() is called, and
\* otherwise the time the wait ends
Admit(requests, t) ==
    LET kept == DropOld(requests, t)
    IN  IF Len(kept) >= RateOptions.maxRequests
        THEN [requests |-> kept, pass |-> FALSE, wake |-> kept[1] + RateOptions.windowMs]
        ELSE [requests |-> Append(kept, t), pass |-> TRUE, wake |-> 0]

NextRCall(c) == rcall[c].pc = "idle" /\ \A j \in RCalls : j < c => rcall[j].pc # "idle"

\* a call enters the registered middleware
rateLimitMiddleware(c) ==
    /\ NextRCall(c)
    /\ LET r == Admit(window, clock)
       IN  /\ window' = r.requests
           /\ rcall' = [rcall EXCEPT ![c] =
                  IF r.pass THEN [pc |-> "passed", wake |-> 0, at |-> clock]
                  ELSE [pc |-> "waiting", wake |-> r.wake, at |-> 0]]
    /\ UNCHANGED <<clock, mwVars, instVars, workerVars, decVars, auxVars>>

\* middleware.ts:251  rateLimitMiddleware(options): a new closure, line 229
FreshWindow(requests) == <<>>

\* middleware.ts:248-251: the wait is over, the call is tried again
RateTimer(c) ==
    /\ rcall[c].pc = "waiting"
    /\ clock >= rcall[c].wake
    /\ LET r == Admit(FreshWindow(window), clock)
       IN  rcall' = [rcall EXCEPT ![c] =
                  IF r.pass THEN [pc |-> "passed", wake |-> 0, at |-> clock]
                  ELSE [pc |-> "waiting", wake |-> r.wake, at |-> 0]]
    /\ UNCHANGED <<clock, window, mwVars, instVars, workerVars, decVars, auxVars>>

\* time passes
RateTick ==
    /\ clock < MaxClock
    /\ clock' = clock + 1
    /\ UNCHANGED <<window, rcall, mwVars, instVars, workerVars, decVars, auxVars>>

InitRate ==
    /\ clock = 0
    /\ window = <<>>
    /\ rcall = [c \in RCalls |-> IdleRCall]

NextRate ==
    \/ \E c \in RCalls : rateLimitMiddleware(c)
    \/ \E c \in RCalls : RateTimer(c)
    \/ RateTick

\* the orchestrator operations, with any input
NextOps ==
    \/ \E e \in Execs, context \in DecryptContexts, shape \in Shapes, throws \in BOOLEAN :
          Execute(e, context, "h1", shape, throws)
    \/ \E e \in Execs, key \in Keys, shape \in Shapes : encrypt(e, key, shape)
    \/ \E e \in Execs, key \in Keys, shape \in Shapes : publicDecrypt(e, key, shape)
    \/ \E e \in Execs, throws \in BOOLEAN : FinalResolved(e, throws)
    \/ \E e \in Execs, err \in EngineErrors, throws \in BOOLEAN : FinalRejected(e, err, throws)
    \/ \E e \in Execs : RetryTimer(e)

\* a batch and the completions of its items
NextBatch ==
    \/ \E items \in Items : batchEncrypt(items)
    \/ \E e \in Execs : FinalResolved(e, FALSE)
    \/ \E e \in Execs, err \in EngineErrors : FinalRejected(e, err, FALSE)

(***************************************************************************)
(* AdvancedCache and MultiLevelCache (part_009:33-339).  A level is the     *)
(* Map of an AdvancedCache, its entries in insertion order; clock is         *)
(* Date.now().  A MultiLevelCache without l2 is its l1 alone.                *)
(***************************************************************************)
CKeys == {"a", "b"}

CValues == {"v1"}

\* `ttl` not given
NoTtl == -1

\* the ttl arguments of set
Ttls == {NoTtl, 1}

\* part_009:41-46: the options of a level; ttl 0 is no expiration
CacheOptions(maxSize) == [maxSize |-> maxSize, ttl |-> 0]

L2Options == CacheOptions(2)

\* a MultiLevelCache over l1 of the given size, with or without l2
NewCache(maxSize, hasL2) ==
    [l1 |-> <<>>, l2 |-> <<>>, options |-> CacheOptions(maxSize), hasL2 |-> hasL2,
     got |-> [key |-> "none", value |-> "none", due |-> 0, at |-> 0]]

\* the position of key in a level, 0 if it has none
Find(c, key) ==
    IF \E i \in DOMAIN c : c[i].key = key
    THEN CHOOSE i \in DOMAIN c : c[i].key = key
    ELSE 0

Remove(c, i) == [j \in 1..(Len(c) - 1) |-> IF j < i THEN c[j] ELSE c[j + 1]]

\* part_009:184-197
evictLRU(c) ==
    IF c = <<>> THEN c
    ELSE Remove(c, CHOOSE i \in DOMAIN c :
                      /\ \A j \in DOMAIN c : c[i].lastAccessed <= c[j].lastAccessed
                      /\ \A j \in 1..(i - 1) : c[j].lastAccessed > c[i].lastAccessed)

\* part_009:55-74  AdvancedCache.set at time t.  expiresAt 0 is undefined;
\* due is the time at which the ttl the value was stored with has elapsed
\* (0: stored without one), kept apart from what the code computes.
cacheSet(c, options, key, value, ttl, t, due) ==
    LET effectiveTtl == IF ttl = NoTtl THEN options.ttl ELSE ttl
        entry == [key |-> key, value |-> value,
                  expiresAt |-> IF effectiveTtl > 0 THEN t + effectiveTtl ELSE 0,
                  lastAccessed |-> t, due |-> due]
        c1 == IF Len(c) >= options.maxSize /\ Find(c, key) = 0 THEN evictLRU(c) ELSE c
    IN  IF Find(c1, key) = 0 THEN Append(c1, entry)
        ELSE [c1 EXCEPT ![Find(c1, key)] = entry]

Miss(c) == [c |-> c, value |-> "none", due |-> 0]

\* part_009:86
Expired(entry, t) == entry.expiresAt # 0 /\ t > entry.expiresAt

\* part_009:78-96  AdvancedCache.get at time t: the level afterwards and the
\* value returned
cacheGet(c, key, t) ==
    LET i == Find(c, key)
    IN  IF i = 0 THEN Miss(c)
        ELSE IF Expired(c[i], t) THEN Miss(Remove(c, i))
        ELSE [c |-> [c EXCEPT ![i].lastAccessed = t], value |-> c[i].value, due |-> c[i].due]

\* part_009:120-122
cacheDelete(c, key) == IF Find(c, key) = 0 THEN c ELSE Remove(c, Find(c, key))

\* when the ttl of set(key, value, ttl) at time t has elapsed
DueOf(options, ttl, t) ==
    LET effectiveTtl == IF ttl = NoTtl THEN options.ttl ELSE ttl
    IN  IF effectiveTtl > 0 THEN t + effectiveTtl ELSE 0

\* part_009:334-339  MultiLevelCache.set
CacheSet(key, value, ttl) ==
    /\ cache' = [cache EXCEPT
                   !.l1 = cacheSet(@, cache.options, key, value, ttl, clock,
                                   DueOf(cache.options, ttl, clock)),
                   !.l2 = IF cache.hasL2
                          THEN cacheSet(@, L2Options, key, value, ttl, clock,
                                        DueOf(L2Options, ttl, clock))
                          ELSE @]
    /\ UNCHANGED <<rpc, rateVars, mwVars, instVars, workerVars, decVars>>

\* part_009:311-329  MultiLevelCache.get
CacheGet(key) ==
    /\ LET r1 == cacheGet(cache.l1, key, clock)
           r2 == cacheGet(cache.l2, key, clock)
       IN  IF r1.value # "none"
           THEN cache' = [cache EXCEPT !.l1 = r1.c,
                             !.got = [key |-> key, value |-> r1.value, due |-> r1.due,
                                      at |-> clock]]
           ELSE IF cache.hasL2 /\ r2.value # "none"
           THEN \* promoted to l1 with l1's own ttl
                cache' = [cache EXCEPT
                             !.l1 = cacheSet(r1.c, cache.options, key, r2.value, NoTtl,
                                             clock, r2.due),
                             !.l2 = r2.c,
                             !.got = [key |-> key, value |-> r2.value, due |-> r2.due,
                                      at |-> clock]]
           ELSE cache' = [cache EXCEPT
                             !.l1 = r1.c,
                             !.l2 = IF cache.hasL2 THEN r2.c ELSE @,
                             !.got = [key |-> key, value |-> "none", due |-> 0,
                                      at |-> clock]]
    /\ UNCHANGED <<rpc, rateVars, mwVars, instVars, workerVars, decVars>>

\* part_009:344-349  MultiLevelCache.delete
CacheDelete(key) ==
    /\ cache' = [cache EXCEPT !.l1 = cacheDelete(@, key),
                              !.l2 = IF cache.hasL2 THEN cacheDelete(@, key) ELSE @]
    /\ UNCHANGED <<rpc, rateVars, mwVars, instVars, workerVars, decVars>>

InitCache == cache \in {NewCache(m, h) : m \in {1, 2}, h \in BOOLEAN}

NextCache ==
    \/ \E key \in CKeys, value \in CValues, ttl \in Ttls : CacheSet(key, value, ttl)
    \/ \E key \in CKeys : CacheGet(key)
    \/ \E key \in CKeys : CacheDelete(key)
    \/ RateTick

(***************************************************************************)
(* WebSocketRpcProvider (part_007:73-169), connected: its socket is open.   *)
(***************************************************************************)
RpcCalls == 1..MaxRpcCalls

\* part_007:79
maxReconnectAttempts == 5

NoValue == [of |-> 0]

\* the result the server computes for the request with this id
Result(id) == [of |-> id]

IdleRpcCall ==
    [state |-> "idle", id |-> 0, value |-> NoValue, error |-> "none", settles |-> 0]

NewRpc ==
    [open |-> TRUE,                \* this.ws is set and OPEN
     closeEvent |-> FALSE,         \* the socket was closed, onclose has not run yet
     reconnectTimer |-> FALSE,     \* the timer of onclose that calls connect()
     reconnectAttempts |-> 0,
     idCounter |-> 0,
     pendingRequests |-> {},       \* the ids of the Map
     timers |-> {},                \* ids whose 30 s timer has not fired yet
     inbox |-> {},                 \* ids the server has still to answer
     last |-> [type |-> "none", id |-> 0, error |-> FALSE],
     calls |-> [c \in RpcCalls |-> IdleRpcCall]]

\* resolve / reject of the promise of a request: the first call settles it
RpcSettle(rq, state, value, error) ==
    [rq EXCEPT !.state = IF rq.state = "pending" THEN state ELSE @,
                 !.value = IF rq.state = "pending" THEN value ELSE @,
                 !.error = IF rq.state = "pending" THEN error ELSE @,
                 !.settles = @ + 1]

\* the request that was given this id
CallOf(r, id) == CHOOSE c \in RpcCalls : r.calls[c].id = id

\* part_007:100-104: only `resolve` is taken from the entry; the `reject` in
\* scope is the one of connect()'s promise, which settled when the socket opened
RejectInScope(rq) == rq

\* part_007:131-160  request(args) on an open socket
request(c) ==
    /\ rpc.calls[c].state = "idle"
    /\ \A j \in RpcCalls : j < c => rpc.calls[j].state # "idle"
    /\ rpc.open
    /\ LET id == rpc.idCounter + 1
       IN  rpc' = [rpc EXCEPT
                     !.idCounter = id,
                     !.pendingRequests = @ \cup {id},
                     !.inbox = @ \cup {id},
                     !.timers = @ \cup {id},
                     !.last = [type |-> "request", id |-> id, error |-> FALSE],
                     !.calls[c] = [@ EXCEPT !.state = "pending", !.id = id]]
    /\ UNCHANGED <<cache, rateVars, mwVars, instVars, workerVars, decVars>>

\* part_007:96-111  ws.onmessage with the response to request id
onmessage(id, error) ==
    /\ rpc.open
    /\ id \in rpc.inbox
    /\ rpc' = [rpc EXCEPT
                 !.inbox = @ \ {id},
                 !.last = [type |-> "message", id |-> id, error |-> error],
                 !.pendingRequests = @ \ {id},
                 !.calls = IF id \notin rpc.pendingRequests THEN @
                           ELSE [@ EXCEPT ![CallOf(rpc, id)] =
                                   IF error THEN RejectInScope(@)
                                   ELSE RpcSettle(@, "resolved", Result(id), "none")]]
    /\ UNCHANGED <<cache, rateVars, mwVars, instVars, workerVars, decVars>>

\* part_007:153-158: the 30 s timer of request id fires
RpcTimeout(id) ==
    /\ id \in rpc.timers
    /\ rpc' = [rpc EXCEPT
                 !.timers = @ \ {id},
                 !.last = [type |-> "timeout", id |-> id, error |-> FALSE],
                 !.pendingRequests = @ \ {id},
                 !.calls = IF id \notin rpc.pendingRequests THEN @
                           ELSE [@ EXCEPT ![CallOf(rpc, id)] =
                                   RpcSettle(@, "rejected", NoValue, "RPC request timeout")]]
    /\ UNCHANGED <<cache, rateVars, mwVars, instVars, workerVars, decVars>>

\* part_007:162-168  disconnect()
disconnect ==
    /\ rpc' = [rpc EXCEPT
                 !.open = FALSE,
                 !.closeEvent = IF rpc.open THEN TRUE ELSE @,
                 !.inbox = IF rpc.open THEN {} ELSE @,
                 !.last = [type |-> "disconnect", id |-> 0, error |-> FALSE],
                 !.pendingRequests = {}]
    /\ UNCHANGED <<cache, rateVars, mwVars, instVars, workerVars, decVars>>

\* the connection is lost
SocketDrop ==
    /\ rpc.open
    /\ rpc' = [rpc EXCEPT !.open = FALSE, !.closeEvent = TRUE, !.inbox = {},
                          !.last = [type |-> "drop", id |-> 0, error |-> FALSE]]
    /\ UNCHANGED <<cache, rateVars, mwVars, instVars, workerVars, decVars>>

\* part_007:117-124  ws.onclose
onclose ==
    /\ rpc.closeEvent
    /\ rpc' = [rpc EXCEPT
                 !.closeEvent = FALSE,
                 !.last = [type |-> "close", id |-> 0, error |-> FALSE],
                 !.reconnectAttempts =
                     IF @ < maxReconnectAttempts THEN @ + 1 ELSE @,
                 !.reconnectTimer =
                     IF rpc.reconnectAttempts < maxReconnectAttempts THEN TRUE ELSE @]
    /\ UNCHANGED <<cache, rateVars, mwVars, instVars, workerVars, decVars>>

\* part_007:122 and 85-94, 113-115: the timer of onclose calls connect(); the
\* new socket opens, or fails and closes
Reconnect(ok) ==
    /\ rpc.reconnectTimer
    /\ ~rpc.open /\ ~rpc.closeEvent
    /\ rpc' = [rpc EXCEPT
                 !.reconnectTimer = FALSE,
                 !.last = [type |-> "connect", id |-> 0, error |-> ~ok],
                 !.open = ok,
                 !.closeEvent = ~ok,
                 !.reconnectAttempts = IF ok THEN 0 ELSE @]
    /\ UNCHANGED <<cache, rateVars, mwVars, instVars, workerVars, decVars>>

NextRpc ==
    \/ \E c \in RpcCalls : request(c)
    \/ \E id \in RpcCalls, error \in BOOLEAN : onmessage(id, error)
    \/ \E id \in RpcCalls : RpcTimeout(id)
    \/ disconnect
    \/ SocketDrop
    \/ onclose
    \/ \E ok \in BOOLEAN : Reconnect(ok)

\* no cache and no provider in use
InitAux == cache = NewCache(1, FALSE) /\ rpc = NewRpc

\* decrypt calls with any handles
NextDedupe ==
    \/ \E e \in Execs, context \in DecryptContexts, handles \in HandleLists :
          Execute(e, context, handles, "ok", FALSE)
    \/ \E e \in Execs, throws \in BOOLEAN : FinalResolved(e, throws)
    \/ \E e \in Execs, err \in EngineErrors, throws \in BOOLEAN : FinalRejected(e, err, throws)
    \/ \E e \in Execs : RetryTimer(e)

InitChain ==
    /\ chain \in Chains
    /\ cfg \in RetryOptions
    /\ (\A i \in DOMAIN chain : chain[i] # "retry") => cfg = DefaultRetry
    /\ exec = [e \in Execs |-> IdleExec]
    /\ pend = {}
    /\ bcall = IdleBatch

NextChain ==
    \/ \E e \in Execs, context \in DecryptContexts : Execute(e, context, "h1", "ok", FALSE)
    \/ \E e \in Execs, key \in Keys : encrypt(e, key, "ok")
    \/ \E e \in Execs, throws \in BOOLEAN : FinalResolved(e, throws)
    \/ \E e \in Execs, err \in EngineErrors, throws \in BOOLEAN : FinalRejected(e, err, throws)
    \/ \E e \in Execs : RetryTimer(e)

(***************************************************************************)
(* Specifications                                                          *)
(***************************************************************************)
\* The configurations a client is constructed from: a live provider (or URL)
\* is at hand or not, mockChains has an entry for the chainId or not, and the
\* client is made by createFhevmClient directly or by the React hook.
Configs == [provider : BOOLEAN, mock : BOOLEAN, hook : BOOLEAN]

\* part_000:30-36: the hook prefers the provider and falls back to the RPC URL
\* of the mock chain; part_012:30-35: the client keeps the network it is given.
NetworkOf(c) == c.provider \/ (c.hook /\ c.mock)

InitInstance ==
    /\ config \in Configs
    /\ network = NetworkOf(config)
    /\ instance = NoInstance
    /\ call = [c \in Calls |-> IdleCall]
    /\ started = 0
    /\ cleared = FALSE

NextInstance ==
    \/ \E c \in Calls, force \in BOOLEAN, signal \in Signals :
          CallCreate(c, force, signal)
    \/ \E c \in Calls, force \in BOOLEAN, signal \in Signals :
          ensureInstance(c, force, signal)
    \/ \E c \in Calls : Abort(c)
    \/ \E c \in Calls : CreateResolved(c)
    \/ \E c \in Calls, thrown \in RoutineErrors : CreateRejected(c, thrown)
    \/ clearInstance

\* no middleware registered, nothing run through the pipeline
NoChain ==
    /\ chain = <<>>
    /\ cfg = DefaultRetry
    /\ exec = [e \in Execs |-> IdleExec]
    /\ pend = {}
    /\ bcall = IdleBatch

Init == InitInstance /\ InitWorker /\ InitDecrypt /\ NoChain /\ InitRate /\ InitAux

InitI == Init /\ active = Transports /\ ~config.mock /\ ~config.hook

SpecInstance == InitI /\ [][NextInstance]_vars

\* the same, for a client made by an application or by the React hook, with or
\* without a provider and a mockChains entry for its chainId
InitConfig == Init /\ active = Transports

SpecConfig == InitConfig /\ [][NextInstance]_vars

\* one worker bridge of either transport
PlainConfig == [provider |-> TRUE, mock |-> FALSE, hook |-> FALSE]

InitW == Init /\ config = PlainConfig /\ Cardinality(active) = 1

SpecWorker == InitW /\ [][NextWorker]_vars

\* ... that may be initialised once more after terminate()
NextReinit == NextWorker \/ Reinit

SpecReinit == InitW /\ [][NextReinit]_vars

\* the two transports side by side, given the same calls and worker events
InitPair == Init /\ config = PlainConfig /\ active = Transports

SpecPair == InitPair /\ [][NextWorker]_vars

\* a bridge initialised once whose worker posts any message at any time
NextMessages ==
    \/ Init_
    \/ \E k \in Ops : CallOp(k)
    \/ \E k \in Ops : Resume(k)
    \/ Ready
    \/ \E msg \in Messages : Post(msg)
    \/ \E k \in Ops : Timeout(k)

SpecMessages == InitW /\ [][NextMessages]_vars

\* decrypt calls on a client that has, or has not, an instance cached
InitD ==
    /\ config = PlainConfig
    /\ network = TRUE
    /\ instance \in {NoInstance, 1}
    /\ call = [c \in Calls |-> IdleCall]
    /\ started = 0
    /\ cleared = FALSE
    /\ InitWorker /\ active = Transports
    /\ InitDecrypt
    /\ NoChain /\ InitRate /\ InitAux

SpecDecrypt == InitD /\ [][NextDecrypt]_vars

\* operations run through a client's middleware chain
InitC ==
    /\ InitInstance /\ config = PlainConfig
    /\ InitWorker /\ active = Transports
    /\ InitDecrypt
    /\ InitChain /\ InitRate /\ InitAux

SpecChain == InitC /\ [][NextChain]_vars

\* decrypt calls with different handle lists through a client's chain
SpecDedupe == InitC /\ [][NextDedupe]_vars

\* encrypt, decrypt and publicDecrypt with valid and invalid input
SpecOps == InitC /\ [][NextOps]_vars

\* calls through a rate limiter
InitR ==
    /\ InitInstance /\ config = PlainConfig
    /\ InitWorker /\ active = Transports
    /\ InitDecrypt
    /\ NoChain /\ InitRate /\ InitAux

SpecRate == InitR /\ [][NextRate]_vars

\* a MultiLevelCache, or an AdvancedCache alone, while time passes
InitK ==
    /\ InitInstance /\ config = PlainConfig
    /\ InitWorker /\ active = Transports
    /\ InitDecrypt
    /\ NoChain /\ InitRate
    /\ InitCache /\ rpc = NewRpc

SpecCache == InitK /\ [][NextCache]_vars

\* requests on a connected WebSocket provider; every timer that is armed fires
InitP ==
    /\ InitInstance /\ config = PlainConfig
    /\ InitWorker /\ active = Transports
    /\ InitDecrypt
    /\ NoChain /\ InitRate
    /\ cache = NewCache(1, FALSE) /\ rpc = NewRpc

SpecRpc ==
    /\ InitP /\ [][NextRpc]_vars
    /\ \A id \in RpcCalls : WF_vars(RpcTimeout(id))

\* batchEncrypt on a client without middlewares
SpecBatch == InitR /\ [][NextBatch]_vars

(***************************************************************************)
(* Claims                                                                  *)
(***************************************************************************)
Settled(c) == call[c].pc \in {"resolved", "rejected"}

\* C1: non-force createInstance calls issued while an earlier non-force call
\* is still creating share that call's one invocation of the creation routine
\* and settle the same way (same instance, or same rejection).
C1_SingleFlight ==
    \A c1, c2 \in Calls :
        ( /\ c1 \in call[c2].overlap
          /\ ~call[c1].force /\ ~call[c2].force
          /\ call[c2].pc = "creating" \/ Settled(c2) )
        => /\ call[c2].inv = call[c1].inv
           /\ (Settled(c1) /\ Settled(c2)) =>
                 /\ call[c1].pc = call[c2].pc
                 /\ call[c1].result = call[c2].result
                 /\ call[c1].error = call[c2].error

\* History: every call so far was made without force, one after the other,
\* none failed and the cache was never cleared.
Sequential ==
    /\ ~cleared
    /\ \A c \in Calls : ~call[c].force /\ call[c].overlap = {} /\ call[c].pc # "rejected"

\* C2: a createInstance call without force that finds an instance cached
\* returns that very instance at once, leaves the cache alone and does not
\* invoke the creation routine; in a history of sequential non-force calls with
\* no failure and no clearInstance the routine has thus run exactly once and
\* every call returned the same instance.
C2_CachedInstanceReused ==
    /\ [][\A c \in Calls :
            ( /\ call[c].pc = "idle" /\ call'[c].pc # "idle"
              /\ ~call'[c].force
              /\ instance # NoInstance )
            => /\ call'[c].pc = "resolved"
               /\ call'[c].result = instance
               /\ instance' = instance
               /\ started' = started]_vars
    /\ [](Sequential /\ (\E c \in Calls : call[c].pc = "resolved")
            => /\ started = 1
               /\ \A c \in Calls : call[c].pc = "resolved" => call[c].result = instance)

\* Two sequential non-force calls have both resolved, the second from the cache.
C2_Witness ==
    /\ Sequential
    /\ \E c1, c2 \in Calls :
          /\ c1 < c2
          /\ call[c1].pc = "resolved" /\ call[c2].pc = "resolved"
          /\ call[c1].inv = 1 /\ call[c2].inv = 0
          /\ call[c2].result = call[c1].result
          /\ call[c2].result # NoInstance

\* The step just taken is the call or event `type` with argument `arg`.
Did(type, arg) == event'.type = type /\ event'.arg = arg

TimedOut(b, k) == b.ops[k].error = "Worker request timeout"

\* C3: a request that times out is rejected with the timeout error by exactly
\* one reject call and leaves the pending table; a response with its id that
\* arrives afterwards changes no request, no timer and no table entry.
C3_TimeoutOnceLateReplyDropped ==
    /\ [](\A t \in active, k \in Ops :
            TimedOut(bridge[t], k)
            => /\ bridge[t].ops[k].state = "rejected"
               /\ bridge[t].ops[k].settles = 1
               /\ bridge[t].ops[k].id \notin PendingIds(bridge[t])
               /\ k \notin bridge[t].timers)
    /\ [][\A t \in active, k \in Ops :
            /\ (Did("timeout", k) /\ bridge[t].ops[k].state = "pending")
               => /\ TimedOut(bridge'[t], k)
                  /\ \A j \in Ops \ {k} : bridge'[t].ops[j] = bridge[t].ops[j]
            /\ (Did("reply", bridge[t].ops[k].id) /\ TimedOut(bridge[t], k))
               => /\ bridge'[t].ops = bridge[t].ops
                  /\ bridge'[t].pendingRequests = bridge[t].pendingRequests
                  /\ bridge'[t].timers = bridge[t].timers]_vars

\* A response has just arrived for a request that had timed out, while another
\* request is still pending.
C3_Witness ==
    \E t \in active, k, j \in Ops :
        /\ TimedOut(bridge[t], k)
        /\ event.type = "reply" /\ event.arg = bridge[t].ops[k].id
        /\ bridge[t].ops[j].state = "pending"

\* C4: terminate() rejects every request that is still pending with
\* "Worker terminated" by exactly one reject call, cancels their timeouts and
\* leaves the pending table empty.
C4_TerminateRejectsAll ==
    [][\A t \in active :
         (Did("terminate", 0) /\ bridge[t].worker)
         => /\ bridge'[t].pendingRequests = {}
            /\ \A k \in Ops :
                  /\ k \in PendingOps(bridge[t]) => k \notin bridge'[t].timers
                  /\ bridge[t].ops[k].state = "pending"
                     => /\ bridge'[t].ops[k].state = "rejected"
                        /\ bridge'[t].ops[k].error = "Worker terminated"
                        /\ bridge'[t].ops[k].settles = 1
                        /\ k \notin bridge'[t].timers]_vars

\* terminate() has just rejected two pending requests.
C4_Witness ==
    \E t \in active, k, j \in Ops :
        /\ k # j
        /\ event.type = "terminate"
        /\ bridge[t].ops[k].error = "Worker terminated"
        /\ bridge[t].ops[j].error = "Worker terminated"
        /\ bridge[t].pendingRequests = {}

StrictlyIncreasing(seq) == \A i, j \in DOMAIN seq : i < j => seq[i] < seq[j]

C5_Witness ==
    \E t \in active, k, j \in Ops :
        /\ bridge[t].ops[k].id < bridge[t].ops[j].id
        /\ bridge[t].ops[k].state = "pending"
        /\ bridge[t].ops[j].state = "resolved"
        /\ event.type = "reply" /\ event.arg = bridge[t].ops[j].id

\* What a caller can observe of a bridge.
Observable(b) ==
    [initialized |-> b.isInitialized,
     pending |-> PendingIds(b),
     init |-> IF b.initPromise = 0 THEN "none" ELSE b.inits[b.initPromise].state,
     ops |-> [k \in Ops |-> <<b.ops[k].state, b.ops[k].error>>]]

\* C6: given the same calls and the same worker events, FheWorker and
\* FheWorkerNode show the caller the same outcomes.
C6_TransportsInterchangeable ==
    active = Transports => Observable(bridge["web"]) = Observable(bridge["node"])
(***************************************************************************)
(* Decrypt orchestrator and signature cache                                 *)
(***************************************************************************)
\* call d enters decrypt/batchDecrypt in this step and its input is accepted
DStarts(d) == dcall[d].pc = "idle" /\ dcall'[d].pc \in {"signing", "decrypting"}

\* the stored signatures made for user u over exactly the contract set S
CachedFor(u, S) ==
    {e \in storage : e.sig.userAddress = u /\ Range(e.sig.contractAddresses) = S}

Unexpired(sig) == now * SecondsPerDay < sig.startTimestamp + sig.durationDays * SecondsPerDay

\* a signTypedData invocation for user u over the set S is outstanding
OpenFor(u, S) ==
    \E i \in DOMAIN signLog :
        signLog[i].open /\ signLog[i].user = u /\ Range(signLog[i].addresses) = S

Handles(reqs) == {reqs[i].handle : i \in DOMAIN reqs}

\* C7: a batchDecrypt over several contracts that finds no valid cached
\* signature (and no signing under way) for its user and contract set invokes
\* the signer exactly once, over the union of the contract addresses of its
\* requests; no further signing is ever done for that call; when it resolves,
\* userDecrypt has been called exactly once, with all the requests, and the
\* result holds the engine's value for every requested handle.
C7_BatchOneSignOneDecrypt ==
    /\ [](\A d \in DCalls :
            dcall[d].batch =>
              /\ Cardinality({i \in DOMAIN signLog : signLog[i].by = d}) <= 1
              /\ dcall[d].pc = "resolved" =>
                   /\ dcall[d].udCalls = 1
                   /\ dcall[d].udReqs = dcall[d].reqs
                   /\ dcall[d].results =
                         {<<h, Value(h)>> : h \in Handles(dcall[d].reqs)})
    /\ [][\A d \in DCalls :
            (/\ DStarts(d)
             /\ dcall'[d].batch
             /\ {e \in CachedFor(dcall'[d].user, AddrSet(dcall'[d].reqs)) :
                    Unexpired(e.sig)} = {}
             /\ ~OpenFor(dcall'[d].user, AddrSet(dcall'[d].reqs)))
            => /\ Len(signLog') = Len(signLog) + 1
               /\ SubSeq(signLog', 1, Len(signLog)) = signLog
               /\ signLog'[Len(signLog')].by = d
               /\ signLog'[Len(signLog')].user = dcall'[d].user
               /\ Range(signLog'[Len(signLog')].addresses) = AddrSet(dcall'[d].reqs)]_vars

\* a batchDecrypt of [{1,A},{2,A},{3,B}] signed once over {A,B} and resolved
\* with three values
C7_Witness ==
    \E d \in DCalls :
        /\ dcall[d].batch
        /\ dcall[d].pc = "resolved"
        /\ dcall[d].reqs = <<Req(1, A), Req(2, A), Req(3, B)>>
        /\ \E i \in DOMAIN signLog :
              signLog[i].by = d /\ Range(signLog[i].addresses) = {A, B}
        /\ dcall[d].sig = dcall[d].prompt
        /\ Cardinality(dcall[d].results) = 3

C8_WitnessOtherSet ==
    \E d \in DCalls :
        /\ AddrSet(dcall[d].reqs) = {A, B, C}
        /\ dcall[d].pc = "resolved"
        /\ dcall[d].sig = 2
        /\ signLog[2].by = d
        /\ CachedFor(dcall[d].user, {A, B}) # {}

\* C9: a decrypt that finds a stored signature for its user and contract set
\* uses it, unchanged and without signing, exactly while
\* now < startTimestamp + durationDays (in seconds); from then on it is a
\* miss: the signer is invoked (or a signing under way is joined), and when
\* the signer has signed, the new signature, and no other, is stored for that
\* user and contract set.
C9_ExpiryResigns ==
    /\ [][\A d \in DCalls :
            DStarts(d) =>
              LET u == dcall'[d].user
                  S == AddrSet(dcall'[d].reqs)
              IN  \A e \in CachedFor(u, S) :
                     IF Unexpired(e.sig)
                     THEN /\ signLog' = signLog
                          /\ storage' = storage
                          /\ dcall'[d].sig = e.sig.id
                     ELSE /\ dcall'[d].pc = "signing"
                          /\ dcall'[d].sig = 0
                          /\ \/ OpenFor(u, S) /\ signLog' = signLog
                             \/ /\ Len(signLog') = Len(signLog) + 1
                                /\ signLog'[Len(signLog')].by = d
                                /\ signLog'[Len(signLog')].start = now * SecondsPerDay]_vars
    /\ [][\A d \in DCalls :
            (dcall[d].pc = "signing" /\ dcall'[d].pc = "decrypting") =>
              /\ dcall'[d].sig = dcall[d].prompt
              /\ \A e \in storage' :
                    (e.sig.userAddress = dcall[d].user
                       /\ Range(e.sig.contractAddresses) = AddrSet(dcall[d].reqs))
                    => /\ e.sig.id = dcall[d].prompt
                       /\ e.sig.startTimestamp = signLog[dcall[d].prompt].start
              /\ \E e \in storage' :
                    /\ e.sig.userAddress = dcall[d].user
                    /\ Range(e.sig.contractAddresses) = AddrSet(dcall[d].reqs)]_vars

\* the signature of the first call had expired when the second call for the
\* same user and set came; the signer signed again and the new signature took
\* the old one's place
C9_Witness ==
    \E d1, d2 \in DCalls :
        /\ dcall[d1].user = dcall[d2].user
        /\ AddrSet(dcall[d1].reqs) = AddrSet(dcall[d2].reqs)
        /\ dcall[d1].pc = "resolved" /\ dcall[d1].sig = 1
        /\ dcall[d2].pc = "resolved" /\ dcall[d2].sig = 2
        /\ signLog[2].by = d2
        /\ signLog[2].start >= signLog[1].start + DurationDays * SecondsPerDay
        /\ \A e \in CachedFor(dcall[d1].user, AddrSet(dcall[d1].reqs)) : e.sig.id = 2
        /\ CachedFor(dcall[d1].user, AddrSet(dcall[d1].reqs)) # {}

\* C10: decrypt calls for the same user and contract set that wait for a
\* signature at the same time wait for the same one signTypedData invocation:
\* at most one invocation per user and contract set is outstanding, and when
\* the signer has signed, all of them go on with that one signature.
C10_ConcurrentSignOnce ==
    /\ [](\A d1, d2 \in DCalls :
            (/\ dcall[d1].pc = "signing" /\ dcall[d2].pc = "signing"
             /\ dcall[d1].user = dcall[d2].user
             /\ AddrSet(dcall[d1].reqs) = AddrSet(dcall[d2].reqs))
            => /\ dcall[d1].prompt = dcall[d2].prompt
               /\ Cardinality({i \in DOMAIN signLog :
                                  /\ signLog[i].open
                                  /\ signLog[i].user = dcall[d1].user
                                  /\ Range(signLog[i].addresses) = AddrSet(dcall[d1].reqs)}) = 1)
    /\ [][\A d1, d2 \in DCalls :
            (/\ dcall[d1].pc = "signing" /\ dcall[d2].pc = "signing"
             /\ dcall[d1].user = dcall[d2].user
             /\ AddrSet(dcall[d1].reqs) = AddrSet(dcall[d2].reqs)
             /\ dcall'[d1].pc = "decrypting")
            => /\ dcall'[d2].pc = "decrypting"
               /\ dcall'[d2].sig = dcall'[d1].sig
               /\ Len(signLog') = Len(signLog)]_vars

\* two calls for the same user and set, the second made while the first one's
\* signing was outstanding, both resolved with the one signature
C10_Witness ==
    \E d1, d2 \in DCalls :
        /\ d1 # d2
        /\ dcall[d1].user = dcall[d2].user
        /\ AddrSet(dcall[d1].reqs) = AddrSet(dcall[d2].reqs)
        /\ Len(signLog) = 1
        /\ signLog[1].by = d1
        /\ dcall[d1].prompt = 1 /\ dcall[d2].prompt = 1
        /\ dcall[d1].pc = "resolved" /\ dcall[d2].pc = "resolved"
        /\ dcall[d1].sig = 1 /\ dcall[d2].sig = 1


\* Operations a and b are duplicates in flight together: both run through the
\* chain with one dedupe key and neither has settled.
Duplicates(a, b) ==
    /\ a # b
    /\ exec[a].op = "decrypt" /\ exec[b].op = "decrypt"
    /\ exec[a].key = exec[b].key
    /\ exec[a].pc \in {"final", "wait", "joined"}
    /\ exec[b].pc \in {"final", "wait", "joined"}

\* C11: with the middlewares registered as [retry, dedupe], two duplicate
\* concurrent calls share one execution of the final handler at every attempt:
\* the final handler is never running once per caller for the pair.
C11_SharedRetryExecution ==
    chain = <<"retry", "dedupe">> =>
        \A a, b \in Execs :
            Duplicates(a, b) => ~(exec[a].pc = "final" /\ exec[b].pc = "final")


DedupePos == CHOOSE d \in DOMAIN chain : chain[d] = "dedupe"

HasDedupe == \E d \in DOMAIN chain : chain[d] = "dedupe"

\* The promise of the next() that dedupe called for operation e is outstanding.
InFlight(e) == \E i \in DOMAIN exec[e].stack : chain[exec[e].stack[i].pos] = "dedupe"

Done(e) == exec[e].pc \in {"resolved", "rejected"}

\* the table holds exactly the keys whose next() is outstanding, one owner each
OneInFlightPerKey ==
    /\ pend = {<<exec[e].key, e>> : e \in {x \in Execs : InFlight(x)}}
    /\ \A a, b \in Execs : InFlight(a) /\ InFlight(b) /\ exec[a].key = exec[b].key => a = b
    /\ \A j \in Execs : exec[j].pc = "joined" =>
            /\ InFlight(exec[j].joined)
            /\ exec[exec[j].joined].key = exec[j].key

\* an operation that joined received what the owner's promise settled with
SameOutcome ==
    (HasDedupe /\ DedupePos = 1) =>
        \A j \in Execs : exec[j].joined # 0 /\ Done(j) =>
            Done(exec[j].joined) /\ exec[j].out = exec[exec[j].joined].out

\* a call arriving: joins without next() while the key is pending, and calls
\* next() otherwise
Arrival ==
    \A e \in Execs :
        (HasDedupe /\ exec[e].pc = "idle" /\ exec'[e].pc # "idle" /\ exec'[e].op = "decrypt") =>
            IF HasPending(pend, exec'[e].key)
            THEN /\ exec'[e].pc = "joined"
                 /\ exec'[e].joined = OwnerOf(pend, exec'[e].key)
                 /\ DedupePos \notin Range(exec'[e].calledNext)
                 /\ exec'[e].finals = 0
                 /\ pend' = pend
            ELSE /\ exec'[e].joined = 0
                 /\ DedupePos \in Range(exec'[e].calledNext)
                 /\ InFlight(e)'

\* C12: under dedupe at most one next() is in flight per key; a call arriving
\* while the key is pending receives the outstanding promise without invoking
\* next(); the entry is removed when the promise resolves or rejects, and the
\* next call with the key invokes next() again.
C12_DedupeOneInFlight ==
    /\ [](OneInFlightPerKey /\ SameOutcome)
    /\ [][Arrival]_vars

\* an operation joined a pending one, both were rejected with the engine's
\* error and the entry is gone
C12_Witness ==
    /\ chain = <<"dedupe">>
    /\ exec[2].joined = 1
    /\ exec[1].out = Rejected("fatal") /\ exec[2].out = Rejected("fatal")
    /\ pend = {}


HasRetry == \E r \in DOMAIN chain : chain[r] = "retry"

RetryPos == CHOOSE r \in DOMAIN chain : chain[r] = "retry"

\* the next() invocations operation e's retry middleware has made
Attempts(e) == Cardinality({i \in DOMAIN exec[e].calledNext : exec[e].calledNext[i] = RetryPos})

RECURSIVE Pow(_, _)
Pow(b, k) == IF k = 0 THEN 1 ELSE b * Pow(b, k - 1)

\* at most maxRetries + 1 invocations, one wait before each re-invocation, a
\* wait only after a retryable failure and never after the last attempt
AttemptsBounded ==
    \A e \in Execs : exec[e].op = "decrypt" /\ Attempts(e) > 0 =>
        /\ Attempts(e) <= cfg.maxRetries + 1
        /\ Len(exec[e].waits) = IF exec[e].pc = "wait" THEN Attempts(e) ELSE Attempts(e) - 1
        /\ exec[e].pc = "wait" => Top(exec[e].stack).lastError = "network"
        /\ exec[e].pc = "wait" => Attempts(e) <= cfg.maxRetries

\* the wait before the (k+1)-th re-invocation
BackoffDelays ==
    \A e \in Execs : \A k \in DOMAIN exec[e].waits :
        exec[e].waits[k] = Min(cfg.initialDelay * Pow(cfg.backoffFactor, k - 1), cfg.maxDelay)

\* C13: with maxRetries = N one call invokes next() at most N+1 times, only
\* after a retryable failure, waiting min(initialDelay * backoffFactor^k,
\* maxDelay) before the (k+1)-th re-invocation, and rethrows without waiting
\* after a non-retryable error or the last attempt.
C13_RetryBackoff == HasRetry => (AttemptsBounded /\ BackoffDelays)


\* the middlewares are entered in registration order, each from the previous
\* one's next()
EnteredInOrder(e) ==
    /\ exec[e].entered # <<>> => exec[e].entered[1] = 1
    /\ \A i \in DOMAIN exec[e].entered : exec[e].enteredFrom[i] = exec[e].entered[i] - 1

\* the first-registered middleware completes last
OutermostLast(e) ==
    (Done(e) /\ chain # <<>>) =>
        /\ exec[e].exited # <<>>
        /\ exec[e].exited[Len(exec[e].exited)] = 1
        /\ \A i \in 1..(Len(exec[e].exited) - 1) : exec[e].exited[i] # 1

\* finalHandler runs only after every middleware was entered and called next()
FinalAfterAll(e) ==
    exec[e].finals > 0 =>
        \A pos \in DOMAIN chain :
            pos \in Range(exec[e].entered) /\ pos \in Range(exec[e].calledNext)

\* C15: execute runs the middlewares in registration order: the first is
\* entered first and completes last, each later one is entered only from the
\* previous one's call to next(), and finalHandler is invoked only after every
\* middleware has been entered and has called next(), so not at all when some
\* middleware does not call next().
C15_ChainOrder ==
    \A e \in Execs : exec[e].op = "decrypt" =>
        EnteredInOrder(e) /\ OutermostLast(e) /\ FinalAfterAll(e)


\* C16: logging and performance are outcome-transparent: whatever next() and
\* the callbacks do, also an onMetric that throws, the wrapped call settles
\* with exactly what next() settled with, and next() is invoked exactly once.
C16_Transparent ==
    chain = <<"logging", "performance">> =>
        \A e \in Execs : exec[e].op = "decrypt" /\ Done(e) =>
            /\ exec[e].out = exec[e].fout
            /\ exec[e].calledNext = <<0, 1, 2>>
            /\ exec[e].finals = 1


\* C17: every encrypt and every decrypt operation runs through the chain of
\* its kind: a registered middleware is entered on each call, before the
\* engine is invoked.
C17_ThroughChain ==
    \A e \in Execs : (exec[e].pc # "idle" /\ chain # <<>>) =>
        /\ exec[e].entered # <<>>
        /\ exec[e].entered[1] = 1


\* the calls passed to next() at a time in [t, t + windowMs)
PassedWithin(t) ==
    {c \in RCalls : /\ rcall[c].pc = "passed"
                    /\ t <= rcall[c].at
                    /\ rcall[c].at < t + RateOptions.windowMs}

\* C14: under the rate limit (maxRequests, windowMs) a call that finds the
\* window saturated waits and is checked again against the same window, so no
\* more than maxRequests calls are passed to next() within any interval of
\* windowMs.
C14_RateLimit ==
    \A t \in 0..MaxClock : Cardinality(PassedWithin(t)) <= RateOptions.maxRequests


\* the step in which call c, whose signal fired during creation, completes
AbortedCompletes(c) ==
    /\ call[c].pc = "creating"
    /\ call[c].signal = "aborted"
    /\ call'[c].pc # "creating"

\* C18: when the signal given to createInstance fires before the call
\* completes, the call rejects with AbortError and the cached instance is left
\* unchanged, also when the creation routine resolves after the signal fired.
C18_AbortDiscards ==
    [][\A c \in Calls : AbortedCompletes(c) =>
            /\ call'[c].pc = "rejected"
            /\ call'[c].error = "AbortError"
            /\ instance' = instance]_vars

\* C19: createInstance on a client with no cached instance and no network
\* configured fails with ConfigError, starts no creation routine and leaves
\* the client's state unchanged.
C19_NoNetworkConfigError ==
    [][\A c \in Calls :
            (~network /\ instance = NoInstance /\ call[c].pc = "idle" /\ call'[c].pc # "idle") =>
                /\ call'[c].pc = "rejected"
                /\ call'[c].error = "ConfigError"
                /\ started' = started
                /\ instance' = instance]_vars


\* C20: on a client configured with a mockChains entry for its chainId and no
\* live provider, createInstance goes on to create the instance with the mock
\* chain's RPC URL as network; it does not fail with a configuration error.
C20_MockChainFallback ==
    [][\A c \in Calls :
            (/\ config.mock /\ ~config.provider
             /\ instance = NoInstance
             /\ call[c].pc = "idle" /\ call'[c].pc # "idle"
             /\ call'[c].signal = "live") =>
                /\ call'[c].pc = "creating"
                /\ started' = started + 1]_vars


\* a call that finds nothing usable in the cache and whose signal has not fired
MustCreate(c) ==
    /\ call[c].pc = "idle" /\ call'[c].pc # "idle"
    /\ call'[c].signal = "live"
    /\ network
    /\ instance = NoInstance

\* C21: when the creation routine fails for a reason other than cancellation,
\* createInstance rejects with InstanceError carrying the failure as cause and
\* caches nothing, and a subsequent createInstance call starts a new creation
\* attempt.
C21_FailureWrappedNotCached ==
    /\ [][\A c \in Calls :
            (call[c].pc = "creating" /\ call[c].signal = "live" /\ call'[c].pc = "rejected") =>
                /\ call'[c].error = "InstanceError"
                /\ call'[c].cause = "Error"
                /\ instance' = instance
                /\ started' = started]_vars
    /\ [][\A c \in Calls :
            (MustCreate(c) /\ \E d \in Calls : call[d].error = "InstanceError") =>
                /\ call'[c].pc = "creating"
                /\ call'[c].inv = started + 1
                /\ started' = started + 1]_vars

\* the first call failed and cached nothing, the next call is creating anew
C21_Witness ==
    /\ call[1].pc = "rejected" /\ call[1].error = "InstanceError" /\ call[1].cause = "Error"
    /\ call[2].pc = "creating" /\ call[2].inv = 2 /\ call[2].overlap = {}
    /\ instance = NoInstance


\* a step of clearInstance: the only operation that settles or starts no call
ClearStep == call' = call /\ instVars' # instVars

SignFailed(d) ==
    /\ dcall[d].pc = "rejected"
    /\ dcall[d].prompt # 0
    /\ dcall[d].sig = 0

KeyOf(d) == CacheKey(dcall[d].user, uniqueAddresses(dcall[d].reqs))

\* C23: when the signer fails or refuses to sign, decrypt rejects with
\* SignatureError without invoking userDecrypt, nothing is written to storage
\* under the signature cache key, and a later decrypt for the same user and
\* contract set prompts the signer again.
C23_SignFailureNotCached ==
    /\ [](\A d \in DCalls : SignFailed(d) =>
            /\ dcall[d].error = "SignatureError"
            /\ dcall[d].udCalls = 0
            /\ \A e \in storage : e.sig.id # dcall[d].prompt)
    /\ [][\A d \in DCalls :
            (dcall[d].pc = "signing" /\ dcall'[d].pc = "rejected") => storage' = storage]_vars
    /\ [][\A d \in DCalls :
            (dcall[d].pc = "idle" /\ dcall'[d].pc \notin {"idle", "rejected"}) =>
                \A f \in DCalls :
                    (/\ SignFailed(f)
                     /\ CacheKey(dcall'[d].user, uniqueAddresses(dcall'[d].reqs)) = KeyOf(f)
                     /\ Stored(KeyOf(f)) = {}
                     /\ Outstanding(KeyOf(f)) = {}) =>
                        /\ dcall'[d].pc = "signing"
                        /\ Len(signLog') = Len(signLog) + 1
                        /\ dcall'[d].prompt = Len(signLog')]_vars

\* the signer refused the first call; the second call, for the same user and
\* contracts, has the signer prompted anew
C23_Witness ==
    /\ SignFailed(1) /\ dcall[1].error = "SignatureError"
    /\ dcall[2].pc = "signing" /\ dcall[2].prompt = 2
    /\ KeyOf(2) = KeyOf(1)
    /\ storage = {}


\* the requests of bridge b that are in the pending table and unsettled
StillPending(b) == {k \in PendingOps(b) : b.ops[k].state = "pending"}

\* C24: on a transport-level error event of the worker every still-pending
\* request is rejected at once, each exactly once and with its timeout
\* cancelled, and the pending table is empty afterwards.
C24_TransportErrorRejectsAll ==
    [][Did("transportError", 0) =>
          \A t \in active :
              (bridge[t].worker /\ ~bridge[t].dead) =>
                  /\ bridge'[t].pendingRequests = {}
                  /\ \A k \in StillPending(bridge[t]) :
                        /\ bridge'[t].ops[k].state = "rejected"
                        /\ bridge'[t].ops[k].settles = 1
                        /\ k \notin bridge'[t].timers]_vars


\* C27: an encrypt or decrypt call made before init has completed awaits
\* initialization first: no request is posted to the worker before `ready`
\* has been received, and when initialization fails the call rejects without
\* posting a request or leaving a pending entry.
C27_RequestsAwaitInit ==
    /\ [][\A t \in active, k \in Ops :
            (bridge[t].ops[k].phase # "sent" /\ bridge'[t].ops[k].phase = "sent") =>
                bridge[t].isInitialized]_vars
    /\ [](\A t \in active, k \in Ops :
            bridge[t].ops[k].phase = "failed" =>
                /\ bridge[t].ops[k].id = 0
                /\ bridge[t].ops[k].state = "rejected"
                /\ k \notin PendingOps(bridge[t])
                /\ k \notin bridge[t].timers)


\* after terminate() or a transport error the bridge is not initialized
TerminalAfterDeath ==
    (Did("terminate", 0) \/ Did("transportError", 0)) =>
        \A t \in active : ~bridge'[t].isInitialized

\* a request is posted only to a worker that exists and has not died
NoDispatchOnDead ==
    \A t \in active, k \in Ops :
        (bridge[t].ops[k].phase # "sent" /\ bridge'[t].ops[k].phase = "sent") =>
            bridge[t].worker /\ ~bridge[t].dead

\* init() on a bridge without a worker starts an initialization that can succeed
ReinitUsable ==
    \A t \in active :
        (Did("init", 0) /\ ~bridge[t].worker) =>
            /\ bridge'[t].worker
            /\ bridge'[t].initPromise # 0
            /\ bridge'[t].inits[bridge'[t].initPromise].state = "pending"

\* C25: after terminate() or a transport-level error the bridge is terminal:
\* `initialized` is false, no encrypt or decrypt request is dispatched on the
\* dead transport, and a further init() makes the bridge usable again.
C25_TerminalUntilReinit ==
    [][TerminalAfterDeath /\ NoDispatchOnDead /\ ReinitUsable]_vars


\* an init message is sent only by an init() that finds neither an initialized
\* bridge nor an init promise, and one at a time
OneInitMessage ==
    \A t \in active :
        /\ bridge'[t].initInbox <= 1
        /\ bridge'[t].initInbox > bridge[t].initInbox => InitCreates(bridge[t])
        /\ Len(bridge'[t].inits) > Len(bridge[t].inits) => InitCreates(bridge[t])

\* the calls that wait for an initialization wait for the one init promise and
\* fail with its error
SameInitOutcome ==
    \A t \in active, k \in Ops :
        /\ (bridge[t].ops[k].phase = "idle" /\ bridge'[t].ops[k].phase = "awaitInit") =>
              bridge'[t].ops[k].init = bridge'[t].initPromise
        /\ bridge'[t].ops[k].phase = "failed" =>
              /\ bridge'[t].inits[bridge'[t].ops[k].init].state = "rejected"
              /\ bridge'[t].ops[k].error = bridge'[t].inits[bridge'[t].ops[k].init].error

\* the one-shot listener of a decided init promise is detached
ListenerDetached ==
    \A t \in active : \A i \in DOMAIN bridge[t].inits :
        bridge[t].inits[i].state # "pending" => ~bridge[t].inits[i].listener

\* C26: initialization is idempotent and single-flight: the init() calls made
\* before `ready` arrives cause exactly one init message and settle with one
\* outcome, init() on an initialized bridge sends nothing, and the one-shot init
\* listener is detached once the outcome is decided.
C26_InitSingleFlight ==
    /\ [][OneInitMessage /\ SameInitOutcome]_vars
    /\ []ListenerDetached

\* an operation whose input the validation rejects
BadInput(e) == exec[e].pc # "idle" /\ exec[e].shape = "invalid"

\* C28: an operation with invalid input is rejected with the validation's error
\* before any asynchronous work: no middleware is entered, the engine is not
\* called, and the operation is never retried.
C28_ValidationFirst ==
    \A e \in Execs :
        BadInput(e) =>
            /\ exec[e].entered = <<>>
            /\ exec[e].engine = 0
            /\ exec[e].waits = <<>>
            /\ exec[e].pc = "rejected"

\* an operation with valid input that failed: in the engine or in a middleware
AsyncFailed(e) == exec[e].pc = "rejected" /\ exec[e].shape = "ok"

\* the kinds of the typed errors of the SDK that wrap a cause
TypedErrors == {"EncryptionError", "DecryptionError", "SignatureError"}

\* C29: an asynchronous failure of encrypt, decrypt or publicDecrypt is emitted
\* exactly once as the operation's error event, and the caller receives a typed
\* error that wraps the original failure, never the raw one.
C29_FailureEmittedOnceTyped ==
    \A e \in Execs :
        AsyncFailed(e) =>
            /\ exec[e].emitted = 1
            /\ exec[e].thrown \in TypedErrors
            /\ exec[e].cause = exec[e].out.val

\* the typed wrapper for every operation, and the event for decrypt alone
TypedWithCause ==
    \A e \in Execs :
        AsyncFailed(e) =>
            /\ exec[e].thrown \in TypedErrors
            /\ exec[e].cause = exec[e].out.val
            /\ exec[e].op = "decrypt" => exec[e].emitted = 1

\* every item of the batch has been started
AllStarted == \A i \in DOMAIN bcall.items : exec[bcall.items[i]].pc # "idle"

\* the batch returned: result i is the encryption of item i
InInputOrder ==
    bcall.pc = "resolved" =>
        /\ Len(bcall.results) = Len(bcall.items)
        /\ \A i \in DOMAIN bcall.items :
              /\ exec[bcall.items[i]].pc = "resolved"
              /\ bcall.results[i] = [item |-> i, value |-> exec[bcall.items[i]].out.val]

\* an item failed: the batch has rejected, with the failure of a failed item
FailureNotHidden ==
    (\E i \in DOMAIN bcall.items : exec[bcall.items[i]].pc = "rejected") =>
        /\ bcall.pc = "rejected"
        /\ \E i \in DOMAIN bcall.items :
              /\ exec[bcall.items[i]].pc = "rejected"
              /\ bcall.error = exec[bcall.items[i]].thrown
              /\ bcall.cause = exec[bcall.items[i]].cause

\* C30: batchEncrypt starts the encrypt of every item at once; when all
\* succeed, result i is the encryption of item i whatever the order in which
\* the items complete; when an item fails, the batch rejects with that failure.
C30_BatchInputOrder ==
    /\ bcall.pc # "idle" => AllStarted
    /\ InInputOrder
    /\ FailureNotHidden

\* a batch returned whose second item completed before its first
C30_Witness ==
    /\ bcall.pc = "resolved"
    /\ Len(bcall.items) >= 2
    /\ bcall.order[1] = 2

\* the message the last step delivered, if it delivered one
Delivered ==
    IF event.type = "post" THEN [id |-> event.arg, type |-> event.kind, error |-> event.text]
    ELSE [id |-> event.arg, type |-> event.kind, error |-> Msg(event.arg, event.kind).error]

\* the request of op k is pending under the id of the delivered message
Matches(t, k) == Delivered'.id # 0 /\ <<Delivered'.id, k>> \in bridge[t].pendingRequests

\* C31: a message whose id matches a pending request settles that request by
\* its type: a response resolves it with the payload, an error rejects it with
\* the carried error message, any other type resolves it with the payload; a
\* message without id, or with an id that is not pending, changes nothing.
C31_SettledByType ==
    [][event'.type \in {"post", "reply"} =>
         \A t \in active :
            /\ \A k \in Ops :
                  IF Matches(t, k)
                  THEN /\ bridge'[t].ops[k].settles = 1
                       /\ Delivered'.id \notin PendingIds(bridge'[t])
                       /\ k \notin bridge'[t].timers
                       /\ IF Delivered'.type = "error"
                          THEN /\ bridge'[t].ops[k].state = "rejected"
                               /\ Delivered'.error # "none" =>
                                     bridge'[t].ops[k].error = Delivered'.error
                          ELSE /\ bridge'[t].ops[k].state = "resolved"
                               /\ bridge'[t].ops[k].value = "payload"
                  ELSE bridge'[t].ops[k] = bridge[t].ops[k]
            /\ (\A k \in Ops : ~Matches(t, k)) =>
                  /\ bridge'[t].pendingRequests = bridge[t].pendingRequests
                  /\ bridge'[t].timers = bridge[t].timers]_vars

\* an error message and a message of an unknown type each settled a request
C31_Witness ==
    /\ event.type = "post"
    /\ \E t \in active, k, j \in Ops :
          /\ bridge[t].ops[k].state = "rejected" /\ bridge[t].ops[k].error = "failed"
          /\ bridge[t].ops[j].state = "resolved" /\ bridge[t].ops[j].value = "payload"
          /\ event.kind = "other" /\ event.arg = bridge[t].ops[j].id

\* the op the last step was about: the one whose timeout fired, or the one
\* whose request the delivered message names
Target(t) ==
    IF event'.type = "timeout" THEN {event'.arg}
    ELSE {k \in Ops : <<event'.arg, k>> \in bridge[t].pendingRequests}

\* the step dispatched the request of op k
Dispatched(t, k) ==
    /\ bridge[t].ops[k].phase \notin {"sent", "unsent"}
    /\ bridge'[t].ops[k].phase \in {"sent", "unsent"}

\* C32: requests in flight on one worker are independent: the timeout, the
\* response or the error of one request leaves every other request, its pending
\* entry and its timeout as they were, and the timeout of a request is armed by
\* its own dispatch and by nothing else.
C32_RequestsIndependent ==
    /\ [][event'.type \in {"timeout", "reply", "post"} =>
            \A t \in active : \A j \in Ops \ Target(t) :
                /\ bridge'[t].ops[j] = bridge[t].ops[j]
                /\ (j \in bridge'[t].timers) = (j \in bridge[t].timers)
                /\ (j \in PendingOps(bridge'[t])) = (j \in PendingOps(bridge[t]))]_vars
    /\ [][\A t \in active : \A k \in Ops :
            k \in bridge'[t].timers \ bridge[t].timers => Dispatched(t, k)]_vars

\* two requests were in flight together; one timed out and the other was
\* answered afterwards
C32_Witness ==
    \E t \in active, k, j \in Ops :
        /\ bridge[t].ops[k].state = "rejected"
        /\ bridge[t].ops[k].error = "Worker request timeout"
        /\ bridge[t].ops[j].state = "resolved"
        /\ event.type = "reply" /\ event.arg = bridge[t].ops[j].id
        /\ bridge[t].ops[j].id < bridge[t].ops[k].id

\* the calls of next() that the middleware at position i made (0: execute)
CallsFrom(e, i) == Cardinality({n \in DOMAIN exec[e].calledNext : exec[e].calledNext[n] = i})

\* the times the middleware at position i + 1 was entered from position i
EntersFrom(e, i) ==
    Cardinality({n \in DOMAIN exec[e].entered :
                    exec[e].enteredFrom[n] = i /\ exec[e].entered[n] = i + 1})

\* C33: within one execute every call of next() by the middleware at position
\* i enters the middleware at position i + 1, or finalHandler when i is the last
\* position, also when a middleware calls next() more than once.
C33_NextEntersSuccessor ==
    \A e \in Execs : exec[e].op = "decrypt" =>
        /\ \A i \in 0..(Len(chain) - 1) : CallsFrom(e, i) = EntersFrom(e, i)
        /\ CallsFrom(e, Len(chain)) = exec[e].finals

\* the table holds the request of op k exactly while its promise is unsettled,
\* and a timeout is live only for such a request
EntryIffUnsettled(t, k) ==
    /\ (k \in PendingOps(bridge[t])) = (bridge[t].ops[k].state = "pending")
    /\ k \in bridge[t].timers => bridge[t].ops[k].state = "pending"

\* C34: the pending table of a bridge holds an id exactly when the promise of
\* that request is unsettled: a request whose dispatch fails is rejected and
\* leaves no entry and no live timeout, and without a worker (after
\* terminate(), until a new init()) the table is empty.
C34_TableMatchesPromises ==
    \A t \in active :
        /\ \A k \in Ops : EntryIffUnsettled(t, k)
        /\ ~bridge[t].worker => bridge[t].pendingRequests = {}

\* C35: a bridge is initialized only if the init() of its current transport
\* resolved: after that init() rejected, a `ready` that arrives later neither
\* marks the bridge initialized nor installs listeners.
C35_InitializedOnlyByResolvedInit ==
    \A t \in active :
        /\ bridge[t].isInitialized =>
              /\ bridge[t].initPromise # 0
              /\ bridge[t].inits[bridge[t].initPromise].state = "resolved"
        /\ (bridge[t].initPromise # 0 /\ bridge[t].handler /\ t = "node") =>
              bridge[t].inits[bridge[t].initPromise].state = "resolved"

\* no init promise of a bridge without a worker is unsettled, and no call
\* still awaits one
NothingAwaitsInit(t) ==
    ~bridge[t].worker =>
        /\ \A i \in DOMAIN bridge[t].inits : bridge[t].inits[i].state # "pending"
        /\ \A k \in Ops :
              bridge[t].ops[k].phase = "awaitInit" =>
                  bridge[t].inits[bridge[t].ops[k].init].state # "pending"

\* the initialization timeout of one init() leaves every other init() alone
OwnTimerOnly(t) ==
    event'.type = "initTimeout" =>
        /\ \A i \in DOMAIN bridge[t].inits :
              i # event'.arg => bridge'[t].inits[i] = bridge[t].inits[i]
        /\ bridge'[t].isInitialized = bridge[t].isInitialized
        /\ bridge'[t].initPromise = bridge[t].initPromise

\* C36: terminate() during a pending init() settles that init() and every
\* call that awaits it: once terminate() has returned no promise of the bridge
\* waits for the initialization timeout, and a later init() is not affected by
\* the timers of the terminated one.
C36_TerminateSettlesInit ==
    /\ [](\A t \in active : NothingAwaitsInit(t))
    /\ [][\A t \in active : OwnTimerOnly(t)]_vars

\* C37: dedupe hands a shared in-flight result only to callers with the same
\* input: a decrypt that resolves receives the clear values of its own
\* handles, never those of another call.
C37_OwnResult ==
    \A e \in Execs :
        (exec[e].op = "decrypt" /\ exec[e].pc = "resolved") =>
            exec[e].out.val = userDecrypt(exec[e].input)

\* the step of a rejected decrypt that failed
FailedStep(d) ==
    IF instance = NoInstance \/ dcall[d].user = "none"
          \/ ~validateDecryptRequests(dcall[d].reqs)
    THEN "check"
    ELSE IF dcall[d].udCalls = 0 THEN "sign" ELSE "userDecrypt"

\* C38: the kind of error a decrypt rejects with tells the step that failed:
\* ConfigError for a missing instance, a missing signer or malformed requests,
\* SignatureError only when the signature could not be obtained, and
\* DecryptionError when userDecrypt failed, whatever the message of that error.
C38_KindByStep ==
    \A d \in DCalls :
        dcall[d].pc = "rejected" =>
            dcall[d].error = CASE FailedStep(d) = "check" -> "ConfigError"
                               [] FailedStep(d) = "sign" -> "SignatureError"
                               [] OTHER -> "DecryptionError"

\* C39: a get of an AdvancedCache or a MultiLevelCache never returns a value
\* once the ttl it was stored with has elapsed, also when MultiLevelCache
\* promoted the value from l2 to l1.
C39_NoValueAfterTtl ==
    (cache.got.value # "none" /\ cache.got.due # 0) => cache.got.at <= cache.got.due

\* a request settles at most once, and with the result of its own response,
\* the RPC error, or the timeout
SettledRight(c) ==
    /\ rpc.calls[c].settles <= 1
    /\ rpc.calls[c].state = "resolved" => rpc.calls[c].value = Result(rpc.calls[c].id)
    /\ rpc.calls[c].state = "rejected" =>
          rpc.calls[c].error \in {"RPC error", "RPC request timeout"}

\* the response to a pending request settles it: with the result, or with the
\* RPC error when it carries one
AnsweredBy(c) ==
    (rpc'.last.type = "message" /\ rpc.calls[c].state = "pending"
        /\ rpc'.last.id = rpc.calls[c].id /\ rpc.calls[c].id \in rpc.pendingRequests) =>
        IF rpc'.last.error
        THEN rpc'.calls[c].state = "rejected" /\ rpc'.calls[c].error = "RPC error"
        ELSE rpc'.calls[c].state = "resolved"

\* C40: every request issued on a connected WebSocketRpcProvider eventually
\* settles, exactly once: it resolves with the result of the response that
\* carries its id, rejects with the RPC error when that response carries an
\* error, rejects on the 30 s timeout when no response arrives, and is not left
\* unsettled by disconnect().
C40_EveryRequestSettles ==
    /\ [](\A c \in RpcCalls : SettledRight(c))
    /\ [][\A c \in RpcCalls : AnsweredBy(c)]_vars
    /\ \A c \in RpcCalls :
          (rpc.calls[c].state = "pending") ~> (rpc.calls[c].state \in {"resolved", "rejected"})

====
